---- MODULE Spec2Model ----
(***************************************************************************)
(* GoSTL: the Deque (growable circular buffer), the Stack and the Queue     *)
(* relay.  Backing arrays live in a heap `mem` (array id -> slots) so that  *)
(* a reference to a replaced array can be told from the current one.        *)
(* Every call exists twice: as an operator that computes the whole call     *)
(* when nothing else runs (Deque_PushBack, Stack_Pop, ...), and as a chain  *)
(* of steps, one per shared-memory access, for the interleaved runs         *)
(* (PushBack_LoadBack, PushBack_CAS, ...).                                  *)
(***************************************************************************)
EXTENDS Integers, Sequences, FiniteSets, TLC

\* the capacity floor of Init and the default of NewDeque / NewStack
DefaultCap == 8

\* the zero value of the element type (var zero T)
Zero == 0

\* what a read outside every backing array yields: a value no push supplied
Junk == -1

Min(a, b) == IF a < b THEN a ELSE b

Max(a, b) == IF a > b THEN a ELSE b

(***************************************************************************)
(* The heap of backing arrays.  Go indexes from 0, a TLA+ sequence from 1.  *)
(***************************************************************************)

\* make([]T, n): a fresh array of n zero slots; its id is Len(m) + 1
make(m, n) == Append(m, [i \in 1..n |-> Zero])

\* header.cap of array id
Cap(m, id) == Len(m[id])

InArr(m, id, i) == i >= 0 /\ i < Cap(m, id)

\* (*[1 << 30]T)(header.data)[i]: no bounds check; outside the array the
\* read yields whatever lies behind it
Load(m, id, i) == IF InArr(m, id, i) THEN m[id][i + 1] ELSE Junk

\* (*[1 << 30]T)(header.data)[i] = v: no bounds check; outside the array the
\* write lands in memory that is no slot of this array
Store(m, id, i, v) == IF InArr(m, id, i) THEN [m EXCEPT ![id][i + 1] = v] ELSE m

\* (*[1 << 30]T)(header.data)[lo:hi]
Slice(m, id, lo, hi) == [k \in 1..Max(hi - lo, 0) |-> Load(m, id, lo + k - 1)]

\* copy(dst[off:], src): the slots of dst after the copy
copySlots(dst, off, src) ==
    [k \in 1..Len(dst) |->
        IF k > off /\ k - off <= Len(src) THEN src[k - off] ELSE dst[k]]

\* copy(dst[off:], src): the number of elements copied
copyCount(dst, off, src) == Min(Max(Len(dst) - off, 0), Len(src))

(***************************************************************************)
(* Deque, one call at a time.  q is the Deque struct                        *)
(* [data, front, back, length, initCap]; a call returns the heap and the    *)
(* struct after it (m, q), its results (val, ok) and fault: whether it      *)
(* touched a slot outside the backing array.                                *)
(***************************************************************************)

\* an Init that takes the requested capacity as it is, without the floor
Deque_Init_NoFloor(m, q, n) ==
    [m |-> make(m, Max(n, 0)),
     q |-> [data |-> Len(m) + 1, front |-> 0, back |-> 0, length |-> 0,
            initCap |-> Max(n, 0)]]

Deque_Init(m, q, n) ==
    LET capacity == IF n > DefaultCap THEN n ELSE DefaultCap
    IN  [m |-> make(m, capacity),
         q |-> [data |-> Len(m) + 1, front |-> 0, back |-> 0, length |-> 0,
                initCap |-> capacity]]

\* initCap is the variadic argument list: <<>> or <<c>>
NewDeque(m, initCap) ==
    LET capacity == IF Len(initCap) > 0 /\ initCap[1] > 0 THEN initCap[1]
                    ELSE DefaultCap
    IN  Deque_Init(m, [data |-> 0, front |-> 0, back |-> 0, length |-> 0,
                       initCap |-> capacity], capacity)

Deque_Empty(q) == q.length = 0

Deque_Len(q) == q.length

Deque_Capacity(m, q) == Cap(m, q.data)

\* a resize that copies data[front:cap] only, never the wrapped part
Deque_internalResize_NoWrap(m, q, newCap) ==
    LET zeros == [i \in 1..newCap |-> Zero]
        first == IF q.front < q.back
                 THEN Slice(m, q.data, q.front, q.back)
                 ELSE Slice(m, q.data, q.front, Cap(m, q.data))
    IN  [m |-> Append(m, copySlots(zeros, 0, first)),
         q |-> [q EXCEPT !.data = Len(m) + 1, !.front = 0, !.back = q.length]]

Deque_internalResize(m, q, newCap) ==
    LET old     == q.data
        zeros   == [i \in 1..newCap |-> Zero]
        first   == IF q.front < q.back
                   THEN Slice(m, old, q.front, q.back)
                   ELSE Slice(m, old, q.front, Cap(m, old))
        n       == copyCount(zeros, 0, first)
        step1   == copySlots(zeros, 0, first)
        newData == IF q.front < q.back
                   THEN step1
                   ELSE copySlots(step1, n, Slice(m, old, 0, q.back))
    IN  [m |-> Append(m, newData),
         q |-> [q EXCEPT !.data = Len(m) + 1, !.front = 0, !.back = q.length]]

\* newCap := header.cap * 2; if newCap == 0 { newCap = q.initCap }
Deque_growCap(m, q) ==
    IF Cap(m, q.data) * 2 = 0 THEN q.initCap ELSE Cap(m, q.data) * 2

Deque_PushBack(m, q, val) ==
    LET capacity == Cap(m, q.data)
    IN  IF q.length < capacity
        THEN [m |-> Store(m, q.data, q.back, val),
              q |-> [q EXCEPT !.back = (q.back + 1) % capacity,
                              !.length = q.length + 1],
              fault |-> ~InArr(m, q.data, q.back)]
        ELSE LET r  == IF q.length = capacity
                       THEN Deque_internalResize(m, q, Deque_growCap(m, q))
                       ELSE [m |-> m, q |-> q]
                 c2 == Cap(r.m, r.q.data)
             IN  [m |-> Store(r.m, r.q.data, r.q.back, val),
                  q |-> [r.q EXCEPT !.back = (r.q.back + 1) % c2,
                                    !.length = r.q.length + 1],
                  fault |-> ~InArr(r.m, r.q.data, r.q.back)]

Deque_PushFront(m, q, val) ==
    LET r        == IF q.length = Cap(m, q.data)
                    THEN Deque_internalResize(m, q, Deque_growCap(m, q))
                    ELSE [m |-> m, q |-> q]
        c2       == Cap(r.m, r.q.data)
        newFront == (r.q.front - 1 + c2) % c2
    IN  [m |-> Store(r.m, r.q.data, newFront, val),
         q |-> [r.q EXCEPT !.front = newFront, !.length = r.q.length + 1],
         fault |-> ~InArr(r.m, r.q.data, newFront)]

\* q.currentData()[i] is a bounds-checked slice read: outside it panics
Deque_PopBack(m, q) ==
    IF q.length = 0
    THEN [m |-> m, q |-> q, val |-> Zero, ok |-> FALSE, fault |-> FALSE]
    ELSE LET len     == Cap(m, q.data)
             newBack == (q.back - 1 + len) % len
         IN  [m |-> m,
              q |-> [q EXCEPT !.back = newBack, !.length = q.length - 1],
              val |-> Load(m, q.data, newBack), ok |-> TRUE,
              fault |-> ~InArr(m, q.data, newBack)]

\* a PopFront without the check for the empty Deque
Deque_PopFront_NoCheck(m, q) ==
    LET len == Cap(m, q.data)
    IN  [m |-> m,
         q |-> [q EXCEPT !.front = (q.front + 1) % len, !.length = q.length - 1],
         val |-> Load(m, q.data, q.front), ok |-> TRUE,
         fault |-> ~InArr(m, q.data, q.front)]

Deque_PopFront(m, q) ==
    IF q.length = 0
    THEN [m |-> m, q |-> q, val |-> Zero, ok |-> FALSE, fault |-> FALSE]
    ELSE LET len == Cap(m, q.data)
         IN  [m |-> m,
              q |-> [q EXCEPT !.front = (q.front + 1) % len,
                              !.length = q.length - 1],
              val |-> Load(m, q.data, q.front), ok |-> TRUE,
              fault |-> ~InArr(m, q.data, q.front)]

Deque_Front(m, q) ==
    IF q.length = 0
    THEN [val |-> Zero, ok |-> FALSE, fault |-> FALSE]
    ELSE [val |-> Load(m, q.data, q.front), ok |-> TRUE,
          fault |-> ~InArr(m, q.data, q.front)]

\* a Back that reads the slot at back, the next to be pushed
Deque_Back_AtBack(m, q) ==
    IF q.length = 0
    THEN [val |-> Zero, ok |-> FALSE, fault |-> FALSE]
    ELSE [val |-> Load(m, q.data, q.back), ok |-> TRUE,
          fault |-> ~InArr(m, q.data, q.back)]

Deque_Back(m, q) ==
    IF q.length = 0
    THEN [val |-> Zero, ok |-> FALSE, fault |-> FALSE]
    ELSE LET len == Cap(m, q.data)
             pos == (q.back - 1 + len) % len
         IN  [val |-> Load(m, q.data, pos), ok |-> TRUE,
              fault |-> ~InArr(m, q.data, pos)]

\* a resolution that adds one too many to a negative index
Resolve_OffByOne(index, length) == IF index < 0 THEN index + length + 1 ELSE index

\* index += length when negative
Resolve(index, length) == IF index < 0 THEN index + length ELSE index

Deque_At(m, q, index) ==
    LET i == Resolve(index, q.length)
    IN  IF i < 0 \/ i >= q.length
        THEN [val |-> Zero, ok |-> FALSE, fault |-> FALSE]
        ELSE LET pos == (q.front + i) % Cap(m, q.data)
             IN  [val |-> Load(m, q.data, pos), ok |-> TRUE,
                  fault |-> ~InArr(m, q.data, pos)]

\* a Set without the range check
Deque_Set_NoRange(m, q, index, value) ==
    LET i == Resolve(index, q.length)
    IN  [m |-> Store(m, q.data, (q.front + i) % Cap(m, q.data), value),
         q |-> q, ok |-> TRUE]

Deque_Set(m, q, index, value) ==
    LET i == Resolve(index, q.length)
    IN  IF i < 0 \/ i >= q.length
        THEN [m |-> m, q |-> q, ok |-> FALSE]
        ELSE [m |-> Store(m, q.data, (q.front + i) % Cap(m, q.data), value),
              q |-> q, ok |-> TRUE]

Deque_Swap(m, q, i, j) ==
    IF i = j
    THEN [m |-> m, q |-> q, ok |-> FALSE]
    ELSE LET ri == Resolve(i, q.length)
             rj == Resolve(j, q.length)
         IN  IF ri < 0 \/ ri >= q.length \/ rj < 0 \/ rj >= q.length
             THEN [m |-> m, q |-> q, ok |-> FALSE]
             ELSE LET capacity == Cap(m, q.data)
                      posI == (q.front + ri) % capacity
                      posJ == (q.front + rj) % capacity
                      vi   == Load(m, q.data, posI)
                      vj   == Load(m, q.data, posJ)
                  IN  [m |-> Store(Store(m, q.data, posI, vj), q.data, posJ, vi),
                       q |-> q, ok |-> TRUE]

Deque_ShrinkToFit(m, q) ==
    IF q.length = 0 THEN Deque_Init(m, q, q.initCap)
    ELSE IF q.length = Cap(m, q.data) THEN [m |-> m, q |-> q]
    ELSE Deque_internalResize(m, q, IF q.length < q.initCap THEN q.initCap
                                    ELSE q.length)

\* Copy: NewDeque(q.Capacity()) and, unless q is empty, a backing array of
\* exactly length slots with the window copied to its start
Deque_Copy(m, q) ==
    LET w       == NewDeque(m, <<Cap(m, q.data)>>)
        zeros   == [i \in 1..q.length |-> Zero]
        first   == IF q.front < q.back
                   THEN Slice(m, q.data, q.front, q.back)
                   ELSE Slice(m, q.data, q.front, Cap(m, q.data))
        n       == copyCount(zeros, 0, first)
        step1   == copySlots(zeros, 0, first)
        data    == IF q.front < q.back
                   THEN step1
                   ELSE copySlots(step1, n, Slice(m, q.data, 0, q.back))
    IN  IF q.length = 0 THEN w
        ELSE [m |-> Append(w.m, data),
              q |-> [w.q EXCEPT !.data = Len(w.m) + 1, !.front = 0,
                                !.back = q.length, !.length = q.length]]

\* Go's % on ints truncates toward zero: the result has the sign of a
GoRem(a, b) == IF a >= 0 THEN a % b ELSE -((-a) % b)

\* cap(data) of data := (*[1 << 30]T)(header.data)[:capacity]: a slice of an
\* array keeps the capacity of the array, whatever its length
ArrayCap == 2 ^ 30

\* data[i], data[j] = data[j], data[i] on the slots of a slice (from 0)
swapSlots(data, i, j) ==
    [k \in 1..Len(data) |-> IF k = i + 1 THEN data[j + 1]
                            ELSE IF k = j + 1 THEN data[i + 1]
                            ELSE data[k]]

\* the loop of reverseCircular from iteration i on; data has len capacity
\* and the index of a slice is bounds-checked against its len: panic
RECURSIVE reverseCircularFrom(_, _, _, _, _)
reverseCircularFrom(data, start, end, count, i) ==
    LET capacity == ArrayCap
        left     == GoRem(start + i, capacity)
        right    == GoRem(end - 1 - i, capacity)
        inLen(k) == k >= 0 /\ k < Len(data)
    IN  IF i >= count \div 2 THEN [data |-> data, panic |-> FALSE]
        ELSE IF ~(inLen(left) /\ inLen(right)) THEN [data |-> data, panic |-> TRUE]
        ELSE reverseCircularFrom(swapSlots(data, left, right), start, end, count, i + 1)

reverseCircular(data, start, end, count) ==
    reverseCircularFrom(data, start, end, count, 0)

\* Rotate: the deque after the call and whether the call panicked; the swaps
\* are made in place, so those made before a panic stay
Deque_Rotate(m, q, n) ==
    LET length == q.length
        r      == GoRem(n, length)
        k      == IF r < 0 THEN r + length ELSE r
        front  == q.front
        r1     == reverseCircular(m[q.data], front, front + length, length)
        r2     == IF r1.panic THEN r1
                  ELSE reverseCircular(r1.data, front, front + k, k)
        r3     == IF r2.panic THEN r2
                  ELSE reverseCircular(r2.data, front + k, front + length, length - k)
    IN  IF length <= 1 THEN [m |-> m, q |-> q, panic |-> FALSE]
        ELSE IF k = 0 THEN [m |-> m, q |-> q, panic |-> FALSE]
        ELSE [m |-> [m EXCEPT ![q.data] = r3.data], q |-> q, panic |-> r3.panic]

\* a Reverse that indexes the array linearly, without the modulo
RECURSIVE Deque_ReverseFrom_Linear(_, _, _)
Deque_ReverseFrom_Linear(m, q, i) ==
    LET left     == q.front + i
        right    == q.front + q.length - 1 - i
        m1       == Store(m, q.data, left, Load(m, q.data, right))
        m2       == Store(m1, q.data, right, Load(m, q.data, left))
    IN  IF i >= q.length \div 2 THEN m
        ELSE Deque_ReverseFrom_Linear(m2, q, i + 1)

\* the loop of Reverse from iteration i on, on the unchecked array
RECURSIVE Deque_ReverseFrom(_, _, _)
Deque_ReverseFrom(m, q, i) ==
    LET capacity == Cap(m, q.data)
        left     == (q.front + i) % capacity
        right    == (q.front + q.length - 1 - i) % capacity
        m1       == Store(m, q.data, left, Load(m, q.data, right))
        m2       == Store(m1, q.data, right, Load(m, q.data, left))
    IN  IF i >= q.length \div 2 THEN m
        ELSE Deque_ReverseFrom(m2, q, i + 1)

Deque_Reverse(m, q) ==
    IF q.length <= 1 THEN [m |-> m, q |-> q]
    ELSE [m |-> Deque_ReverseFrom(m, q, 0), q |-> q]

\* a Clear that leaves the back boundary where it was
Deque_Clear_KeepBack(m, q) ==
    [m |-> m, q |-> [q EXCEPT !.front = 0, !.length = 0]]

\* Clear: the boundaries and the count are reset, the backing array stays
Deque_Clear(m, q) ==
    [m |-> m, q |-> [q EXCEPT !.front = 0, !.back = 0, !.length = 0]]

\* (*[1 << 30]T)(header.data)[i] = v with i outside array id writes the
\* memory behind the array: it lands in no backing array, or in the slot
\* i - cap of another backing array of the same size that lies next to it
StrayWrites(m, id, i, v) ==
    {m} \cup {[m EXCEPT ![k][i - Cap(m, id) + 1] = v] :
                 k \in {a \in DOMAIN m : a # id /\ Cap(m, a) = Cap(m, id)
                                              /\ i - Cap(m, id) < Cap(m, a)}}

\* the live elements front to back, as At(0), At(1), ... returns them
Deque_Elems(m, q) == [k \in 1..Max(q.length, 0) |-> Deque_At(m, q, k - 1).val]

(***************************************************************************)
(* Queue: the relay onto the Deque.                                         *)
(***************************************************************************)

NewQueue(m) == NewDeque(m, <<>>)

Queue_Push(m, q, value) == Deque_PushBack(m, q, value)

Queue_Init(m, q, n) == Deque_Init(m, q, n)

\* a Pop that takes from the back of the Deque
Queue_Pop_Back(m, q) == Deque_PopBack(m, q)

Queue_Pop(m, q) == Deque_PopFront(m, q)

Queue_Len(q) == Deque_Len(q)

(***************************************************************************)
(* Stack, one call at a time.  s is the Stack struct [data, top, initCap].  *)
(***************************************************************************)

Stack_Init(m, s, n) ==
    LET capacity == IF n > DefaultCap THEN n ELSE DefaultCap
    IN  [m |-> make(m, capacity),
         s |-> [data |-> Len(m) + 1, top |-> 0, initCap |-> capacity]]

NewStack(m, initCap) ==
    LET capacity == IF Len(initCap) > 0 /\ initCap[1] > 0 THEN initCap[1]
                    ELSE DefaultCap
    IN  Stack_Init(m, [data |-> 0, top |-> 0, initCap |-> capacity], capacity)

Stack_Empty(s) == s.top = 0

Stack_Length(s) == s.top

Stack_Capacity(m, s) == Cap(m, s.data)

\* a resize that copies one element too few
Stack_internalResize_Short(m, s, newCap) ==
    LET zeros == [i \in 1..newCap |-> Zero]
    IN  [m |-> Append(m, copySlots(zeros, 0, Slice(m, s.data, 0, s.top - 1))),
         s |-> [s EXCEPT !.data = Len(m) + 1]]

Stack_internalResize(m, s, newCap) ==
    LET zeros == [i \in 1..newCap |-> Zero]
    IN  [m |-> Append(m, copySlots(zeros, 0, Slice(m, s.data, 0, s.top))),
         s |-> [s EXCEPT !.data = Len(m) + 1]]

Stack_growCap(m, s) ==
    IF Cap(m, s.data) * 2 = 0 THEN s.initCap ELSE Cap(m, s.data) * 2

Stack_Push(m, s, val) ==
    IF s.top < Cap(m, s.data)
    THEN [m |-> Store(m, s.data, s.top, val),
          s |-> [s EXCEPT !.top = s.top + 1],
          fault |-> ~InArr(m, s.data, s.top)]
    ELSE LET r == IF s.top = Cap(m, s.data)
                  THEN Stack_internalResize(m, s, Stack_growCap(m, s))
                  ELSE [m |-> m, s |-> s]
         IN  [m |-> Store(r.m, r.s.data, r.s.top, val),
              s |-> [r.s EXCEPT !.top = r.s.top + 1],
              fault |-> ~InArr(r.m, r.s.data, r.s.top)]

Stack_Pop(m, s) ==
    IF s.top <= 0
    THEN [m |-> m, s |-> s, val |-> Zero, ok |-> FALSE, fault |-> FALSE]
    ELSE [m |-> m, s |-> [s EXCEPT !.top = s.top - 1],
          val |-> Load(m, s.data, s.top - 1), ok |-> TRUE,
          fault |-> ~InArr(m, s.data, s.top - 1)]

Stack_Top(m, s) ==
    IF s.top <= 0
    THEN [val |-> Zero, ok |-> FALSE, fault |-> FALSE]
    ELSE [val |-> Load(m, s.data, s.top - 1), ok |-> TRUE,
          fault |-> ~InArr(m, s.data, s.top - 1)]

\* data[:header.cap][top-1-index] is a bounds-checked slice access
Stack_At(m, s, index) ==
    LET i == Resolve(index, s.top)
    IN  IF i < 0 \/ i >= s.top
        THEN [val |-> Zero, ok |-> FALSE, fault |-> FALSE]
        ELSE [val |-> Load(m, s.data, s.top - 1 - i), ok |-> TRUE,
              fault |-> ~InArr(m, s.data, s.top - 1 - i)]

\* a Set that counts the index from the bottom of the Stack
Stack_Set_FromBottom(m, s, index, val) ==
    LET i == Resolve(index, s.top)
    IN  IF i < 0 \/ i >= s.top
        THEN [m |-> m, s |-> s, ok |-> FALSE]
        ELSE [m |-> Store(m, s.data, i, val), s |-> s, ok |-> TRUE]

Stack_Set(m, s, index, val) ==
    LET i == Resolve(index, s.top)
    IN  IF i < 0 \/ i >= s.top
        THEN [m |-> m, s |-> s, ok |-> FALSE]
        ELSE [m |-> Store(m, s.data, s.top - 1 - i, val), s |-> s, ok |-> TRUE]

\* a Resize that leaves the count as it is when the new capacity is below it
Stack_Resize_NoTruncate(m, s, newCap) == Stack_internalResize(m, s, newCap)

\* Resize: the count is cut down to newCap first, then the storage replaced
Stack_Resize(m, s, newCap) ==
    Stack_internalResize(m, IF newCap < s.top THEN [s EXCEPT !.top = newCap] ELSE s,
                         newCap)

Stack_TrimToSize(m, s) ==
    IF s.top = 0 THEN Stack_internalResize(m, s, s.initCap)
    ELSE IF s.top < Cap(m, s.data) THEN Stack_internalResize(m, s, s.top)
    ELSE [m |-> m, s |-> s]

\* Reverse: data is the slice of all header.cap slots
RECURSIVE Stack_ReverseFrom(_, _, _)
Stack_ReverseFrom(data, top, i) ==
    IF i >= top \div 2 THEN data
    ELSE Stack_ReverseFrom(swapSlots(data, i, top - 1 - i), top, i + 1)

\* a Reverse that assigns data[i] = data[j] where the code swaps
Stack_Reverse_Assign(m, s) ==
    [m |-> [m EXCEPT ![s.data] =
                [k \in 1..Len(m[s.data]) |->
                    IF k <= s.top \div 2 THEN m[s.data][s.top + 1 - k]
                    ELSE m[s.data][k]]],
     s |-> s]

Stack_Reverse(m, s) ==
    [m |-> [m EXCEPT ![s.data] = Stack_ReverseFrom(m[s.data], s.top, 0)], s |-> s]

\* the closure reverse of Rotate: reverses data[start:end] in place
RECURSIVE Stack_reverse(_, _, _)
Stack_reverse(data, i, j) ==
    IF i < j THEN Stack_reverse(swapSlots(data, i, j), i + 1, j - 1) ELSE data

\* a Rotate that splits the reversed slice at top - n: a shift to the left
Stack_Rotate_Left(m, s, n) ==
    LET top  == s.top
        r    == GoRem(n, top)
        k    == IF r < 0 THEN r + top ELSE r
        data == [i \in 1..top |-> m[s.data][i]]
        a1   == Stack_reverse(data, 0, top - 1)
        a2   == Stack_reverse(a1, 0, top - k - 1)
        a3   == Stack_reverse(a2, top - k, top - 1)
    IN  IF top <= 1 THEN [m |-> m, s |-> s]
        ELSE IF k = 0 THEN [m |-> m, s |-> s]
        ELSE [m |-> [m EXCEPT ![s.data] =
                        [i \in 1..Len(m[s.data]) |->
                            IF i <= top THEN a3[i] ELSE m[s.data][i]]],
              s |-> s]

\* Rotate: data is the slice of the first top slots
Stack_Rotate(m, s, n) ==
    LET top  == s.top
        r    == GoRem(n, top)
        k    == IF r < 0 THEN r + top ELSE r
        data == [i \in 1..top |-> m[s.data][i]]
        a1   == Stack_reverse(data, 0, top - 1)
        a2   == Stack_reverse(a1, 0, k - 1)
        a3   == Stack_reverse(a2, k, top - 1)
    IN  IF top <= 1 THEN [m |-> m, s |-> s]
        ELSE IF k = 0 THEN [m |-> m, s |-> s]
        ELSE [m |-> [m EXCEPT ![s.data] =
                        [i \in 1..Len(m[s.data]) |->
                            IF i <= top THEN a3[i] ELSE m[s.data][i]]],
              s |-> s]

\* Copy: a backing array of exactly top slots, initCap carried over
Stack_Copy(m, s) ==
    LET zeros == [i \in 1..s.top |-> Zero]
    IN  [m |-> Append(m, copySlots(zeros, 0, Slice(m, s.data, 0, s.top))),
         s |-> [data |-> Len(m) + 1, top |-> s.top, initCap |-> s.initCap]]

\* Clear: the top is reset, the backing array stays
Stack_Clear(m, s) == [m |-> m, s |-> [s EXCEPT !.top = 0]]

\* the live elements top to bottom, as At(0), At(1), ... returns them
Stack_Elems(m, s) == [k \in 1..Max(s.top, 0) |-> Stack_At(m, s, k - 1).val]

(***************************************************************************)
(* State.                                                                   *)
(***************************************************************************)
VARIABLES
    mem,      \* the heap of backing arrays ([]T behind a sliceHeader), by id
    dq,       \* the Deque struct: data (array id), front, back, length, initCap
    st,       \* the Stack struct: data (array id), top, initCap
    mu,       \* sync.Mutex of the container: 0 when free, else the holder
    pc,       \* per goroutine: the statement it is at
    loc,      \* per goroutine: the local variables of the running call
    prog,     \* per goroutine: the calls it has still to make
    res,      \* per goroutine: what its calls returned, in order
    crashed,  \* a goroutine panicked: the process is gone
    faults,   \* what went wrong so far: "stale" (a slot write went to an array
              \* that was no longer current), "oob" (a slot access outside the array)
    behind,   \* the words behind backing arrays that a write outside the array
              \* has stored: <<array id, index, value>>
    abs,      \* the abstract sequence the container is compared with
    hist,     \* what the pops of a push-then-pop run returned, in order; in
              \* SpecStruct the call before the last
    ret,      \* the last call of a one-call-at-a-time run and its pre-state
    nops,     \* calls made so far in a one-call-at-a-time run
    cfg       \* the scenario: which container, how many calls

vars == <<mem, dq, st, mu, pc, loc, prog, res, crashed, faults, behind, abs,
          hist, ret, nops, cfg>>

concVars == <<mu, pc, loc, prog, res, crashed, faults, behind>>

NoDeque == [data |-> 0, front |-> 0, back |-> 0, length |-> 0, initCap |-> 0]

NoStack == [data |-> 0, top |-> 0, initCap |-> 0]

NoRet == [op |-> "none", arg |-> <<>>, val |-> Zero, ok |-> FALSE,
          aval |-> Zero, aok |-> FALSE,
          pre |-> [mem |-> <<>>, dq |-> NoDeque, st |-> NoStack]]

\* no goroutine runs: the calls are made one at a time
NoThreads ==
    /\ mu = 0
    /\ pc = <<>>
    /\ loc = <<>>
    /\ prog = <<>>
    /\ res = <<>>
    /\ crashed = FALSE
    /\ faults = {}
    /\ behind = {}

Pre == [mem |-> mem, dq |-> dq, st |-> st]

(***************************************************************************)
(* Bounds.                                                                  *)
(***************************************************************************)

\* most elements a one-call-at-a-time run starts with
MaxFill == 8

\* most calls of a one-call-at-a-time run of pushes and pops
MaxSeqOps == 4

\* most pushes (and as many pops) of a push-then-pop run
MaxN == 9

\* most push/pop pairs a Queue has seen before a push-then-pop run
MaxWarm == 3

(***************************************************************************)
(* The states a single caller can have built before a run starts:          *)
(* nf PushFront calls, then nb PushBack calls, on a new Deque; np Push      *)
(* calls on a new Stack.                                                    *)
(***************************************************************************)

FrontVal(k) == 20 + k

BackVal(k) == 10 + k

FreshVal == 30 + nops

RECURSIVE PushFrontN(_, _)
PushFrontN(w, k) ==
    IF k = 0 THEN w
    ELSE LET p == PushFrontN(w, k - 1)
         IN  Deque_PushFront(p.m, p.q, FrontVal(k))

RECURSIVE PushBackN(_, _)
PushBackN(w, k) ==
    IF k = 0 THEN w
    ELSE LET p == PushBackN(w, k - 1)
         IN  Deque_PushBack(p.m, p.q, BackVal(k))

FilledDeque(nf, nb) == PushBackN(PushFrontN(NewDeque(<<>>, <<>>), nf), nb)

\* the same calls on the abstract sequence
FilledAbs(nf, nb) ==
    [k \in 1..(nf + nb) |-> IF k <= nf THEN FrontVal(nf + 1 - k) ELSE BackVal(k - nf)]

RECURSIVE PushN(_, _)
PushN(w, k) ==
    IF k = 0 THEN w
    ELSE LET p == PushN(w, k - 1)
         IN  Stack_Push(p.m, p.s, BackVal(k))

FilledStack(np) == PushN(NewStack(<<>>, <<>>), np)

\* a Queue that has pushed and popped r elements: empty, front at r
RECURSIVE WarmQueue(_)
WarmQueue(r) ==
    IF r = 0 THEN NewQueue(<<>>)
    ELSE LET p == WarmQueue(r - 1)
             a == Queue_Push(p.m, p.q, BackVal(r))
         IN  Queue_Pop(a.m, a.q)

(***************************************************************************)
(* SpecSeq: PushBack, PushFront, PopBack, PopFront on a Deque, one call at  *)
(* a time, beside the abstract sequence.                                    *)
(***************************************************************************)

InitSeq ==
    /\ NoThreads
    /\ \E nf \in 0..MaxFill : \E nb \in 0..(MaxFill - nf) :
          /\ mem = FilledDeque(nf, nb).m
          /\ dq = FilledDeque(nf, nb).q
          /\ abs = FilledAbs(nf, nb)
    /\ st = NoStack
    /\ hist = <<>>
    /\ ret = NoRet
    /\ nops = 0
    /\ cfg = [name |-> "seq", n |-> 0]

SeqPushBack ==
    /\ nops < MaxSeqOps
    /\ LET r == Deque_PushBack(mem, dq, FreshVal)
       IN  /\ mem' = r.m
           /\ dq' = r.q
           /\ abs' = Append(abs, FreshVal)
           /\ ret' = [NoRet EXCEPT !.op = "PushBack", !.arg = <<FreshVal>>]
    /\ nops' = nops + 1
    /\ UNCHANGED <<st, hist, cfg, concVars>>

SeqPushFront ==
    /\ nops < MaxSeqOps
    /\ LET r == Deque_PushFront(mem, dq, FreshVal)
       IN  /\ mem' = r.m
           /\ dq' = r.q
           /\ abs' = <<FreshVal>> \o abs
           /\ ret' = [NoRet EXCEPT !.op = "PushFront", !.arg = <<FreshVal>>]
    /\ nops' = nops + 1
    /\ UNCHANGED <<st, hist, cfg, concVars>>

SeqPopBack ==
    /\ nops < MaxSeqOps
    /\ LET r == Deque_PopBack(mem, dq)
       IN  /\ mem' = r.m
           /\ dq' = r.q
           /\ abs' = IF abs = <<>> THEN abs ELSE SubSeq(abs, 1, Len(abs) - 1)
           /\ ret' = [NoRet EXCEPT !.op = "PopBack", !.val = r.val, !.ok = r.ok,
                        !.aval = IF abs = <<>> THEN Zero ELSE abs[Len(abs)],
                        !.aok = (abs # <<>>)]
    /\ nops' = nops + 1
    /\ UNCHANGED <<st, hist, cfg, concVars>>

SeqPopFront ==
    /\ nops < MaxSeqOps
    /\ LET r == Deque_PopFront(mem, dq)
       IN  /\ mem' = r.m
           /\ dq' = r.q
           /\ abs' = IF abs = <<>> THEN abs ELSE Tail(abs)
           /\ ret' = [NoRet EXCEPT !.op = "PopFront", !.val = r.val, !.ok = r.ok,
                        !.aval = IF abs = <<>> THEN Zero ELSE Head(abs),
                        !.aok = (abs # <<>>)]
    /\ nops' = nops + 1
    /\ UNCHANGED <<st, hist, cfg, concVars>>

NextSeq == SeqPushBack \/ SeqPushFront \/ SeqPopBack \/ SeqPopFront

SpecSeq == InitSeq /\ [][NextSeq]_vars

\* C5: one call at a time, every pop of the Deque returns what the same pop
\* returns on the abstract sequence (PushBack appends, PushFront prepends,
\* PopFront removes the first, PopBack removes the last), and Len() is the
\* abstract length after every call, across growth and a wrapped window.
C5_DequeRefinesSequence ==
    /\ ret.op \in {"PopBack", "PopFront"} => ret.val = ret.aval /\ ret.ok = ret.aok
    /\ Deque_Len(dq) = Len(abs)

\* a pop answered from a grown array whose live window wraps
C5_Witness ==
    /\ ret.op = "PopBack"
    /\ ret.ok
    /\ Deque_Capacity(mem, dq) = 2 * DefaultCap
    /\ dq.front > dq.back
    /\ dq.length > 0

(***************************************************************************)
(* SpecFIFO: N Push then N Pop on a Queue.  abs keeps v_1..v_N as pushed,   *)
(* hist what the pops returned.                                             *)
(***************************************************************************)

InitFIFO ==
    /\ NoThreads
    /\ \E r \in 0..MaxWarm :
          /\ mem = WarmQueue(r).m
          /\ dq = WarmQueue(r).q
    /\ \E n \in 0..MaxN : cfg = [name |-> "fifo", n |-> n]
    /\ st = NoStack
    /\ abs = <<>>
    /\ hist = <<>>
    /\ ret = NoRet
    /\ nops = 0

FifoPush ==
    /\ Len(abs) < cfg.n
    /\ LET r == Queue_Push(mem, dq, FreshVal)
       IN  /\ mem' = r.m
           /\ dq' = r.q
    /\ abs' = Append(abs, FreshVal)
    /\ nops' = nops + 1
    /\ UNCHANGED <<st, hist, ret, cfg, concVars>>

FifoPop ==
    /\ Len(abs) = cfg.n
    /\ Len(hist) < cfg.n
    /\ LET r == Queue_Pop(mem, dq)
       IN  /\ mem' = r.m
           /\ dq' = r.q
           /\ hist' = Append(hist, [val |-> r.val, ok |-> r.ok])
    /\ nops' = nops + 1
    /\ UNCHANGED <<st, abs, ret, cfg, concVars>>

NextFIFO == FifoPush \/ FifoPop

SpecFIFO == InitFIFO /\ [][NextFIFO]_vars

\* C3: after N Push(v_1..v_N) on a Queue, the i-th Pop returns (v_i, true),
\* also when N is larger than the initial capacity.
C3_FIFO ==
    \A i \in 1..Len(hist) : hist[i] = [val |-> abs[i], ok |-> TRUE]

\* all N pops of a run that outgrew the initial capacity have returned
C3_Witness ==
    /\ cfg.name = "fifo"
    /\ cfg.n > DefaultCap
    /\ Len(hist) = cfg.n
    /\ Deque_Capacity(mem, dq) > DefaultCap

(***************************************************************************)
(* SpecLIFO: N Push then N Pop on a Stack.                                  *)
(***************************************************************************)

InitLIFO ==
    /\ NoThreads
    /\ \E c \in {<<>>, <<DefaultCap + 1>>} :
          /\ mem = NewStack(<<>>, c).m
          /\ st = NewStack(<<>>, c).s
    /\ \E n \in 0..MaxN : cfg = [name |-> "lifo", n |-> n]
    /\ dq = NoDeque
    /\ abs = <<>>
    /\ hist = <<>>
    /\ ret = NoRet
    /\ nops = 0

LifoPush ==
    /\ Len(abs) < cfg.n
    /\ LET r == Stack_Push(mem, st, FreshVal)
       IN  /\ mem' = r.m
           /\ st' = r.s
    /\ abs' = Append(abs, FreshVal)
    /\ nops' = nops + 1
    /\ UNCHANGED <<dq, hist, ret, cfg, concVars>>

LifoPop ==
    /\ Len(abs) = cfg.n
    /\ Len(hist) < cfg.n
    /\ LET r == Stack_Pop(mem, st)
       IN  /\ mem' = r.m
           /\ st' = r.s
           /\ hist' = Append(hist, [val |-> r.val, ok |-> r.ok])
    /\ nops' = nops + 1
    /\ UNCHANGED <<dq, abs, ret, cfg, concVars>>

NextLIFO == LifoPush \/ LifoPop

SpecLIFO == InitLIFO /\ [][NextLIFO]_vars

\* C4: after N Push(v_1..v_N) on a Stack, the i-th Pop returns
\* (v_(N+1-i), true), also when N is larger than the initial capacity.
C4_LIFO ==
    \A i \in 1..Len(hist) : hist[i] = [val |-> abs[cfg.n + 1 - i], ok |-> TRUE]

\* all N pops of a run that grew the stack have returned
C4_Witness ==
    /\ cfg.name = "lifo"
    /\ cfg.n > DefaultCap
    /\ Len(hist) = cfg.n
    /\ Stack_Capacity(mem, st) = 2 * DefaultCap

(***************************************************************************)
(* SpecEmpty: pushes, pops and peeks, one call at a time, from a new Deque  *)
(* or a new Stack; ret keeps the last call with the state before it.        *)
(***************************************************************************)

\* most calls of a run around the empty container
MaxEmptyOps == 5

InitEmpty ==
    /\ NoThreads
    /\ \/ /\ cfg = [name |-> "deque", n |-> 0]
          /\ mem = NewDeque(<<>>, <<>>).m
          /\ dq = NewDeque(<<>>, <<>>).q
          /\ st = NoStack
       \/ /\ cfg = [name |-> "stack", n |-> 0]
          /\ mem = NewStack(<<>>, <<>>).m
          /\ st = NewStack(<<>>, <<>>).s
          /\ dq = NoDeque
    /\ abs = <<>>
    /\ hist = <<>>
    /\ ret = NoRet
    /\ nops = 0

\* a call on the Deque: the heap and struct after it, and what it returned
DequeCall(op, r) ==
    /\ cfg.name = "deque"
    /\ mem' = r.m
    /\ dq' = r.q
    /\ ret' = [NoRet EXCEPT !.op = op, !.val = r.val, !.ok = r.ok, !.pre = Pre]
    /\ nops' = nops + 1
    /\ UNCHANGED <<st, abs, hist, cfg, concVars>>

StackCall(op, r) ==
    /\ cfg.name = "stack"
    /\ mem' = r.m
    /\ st' = r.s
    /\ ret' = [NoRet EXCEPT !.op = op, !.val = r.val, !.ok = r.ok, !.pre = Pre]
    /\ nops' = nops + 1
    /\ UNCHANGED <<dq, abs, hist, cfg, concVars>>

\* a call that returns nothing, or one that leaves the container alone
Void(r) == [m |-> r.m, q |-> r.q, val |-> Zero, ok |-> TRUE]

VoidS(r) == [m |-> r.m, s |-> r.s, val |-> Zero, ok |-> TRUE]

ReadOnly(r) == [m |-> mem, q |-> dq, val |-> r.val, ok |-> r.ok]

ReadOnlyS(r) == [m |-> mem, s |-> st, val |-> r.val, ok |-> r.ok]

EmptyPushBack ==
    nops < MaxEmptyOps /\ DequeCall("PushBack", Void(Deque_PushBack(mem, dq, FreshVal)))

EmptyPushFront ==
    nops < MaxEmptyOps /\ DequeCall("PushFront", Void(Deque_PushFront(mem, dq, FreshVal)))

EmptyPopBack == nops < MaxEmptyOps /\ DequeCall("PopBack", Deque_PopBack(mem, dq))

EmptyPopFront == nops < MaxEmptyOps /\ DequeCall("PopFront", Deque_PopFront(mem, dq))

EmptyFront == nops < MaxEmptyOps /\ DequeCall("Front", ReadOnly(Deque_Front(mem, dq)))

EmptyBack == nops < MaxEmptyOps /\ DequeCall("Back", ReadOnly(Deque_Back(mem, dq)))

EmptyPush ==
    nops < MaxEmptyOps /\ StackCall("Push", VoidS(Stack_Push(mem, st, FreshVal)))

EmptyPop == nops < MaxEmptyOps /\ StackCall("Pop", Stack_Pop(mem, st))

EmptyTop == nops < MaxEmptyOps /\ StackCall("Top", ReadOnlyS(Stack_Top(mem, st)))

NextEmpty ==
    \/ EmptyPushBack \/ EmptyPushFront \/ EmptyPopBack \/ EmptyPopFront
    \/ EmptyFront \/ EmptyBack
    \/ EmptyPush \/ EmptyPop \/ EmptyTop

SpecEmpty == InitEmpty /\ [][NextEmpty]_vars

\* C9: PopFront, PopBack, Front, Back on an empty Deque and Pop, Top on an
\* empty Stack return (zero, false) and leave the indices, the count and the
\* backing storage (so the capacity) as they were.
C9_EmptyIsAbsent ==
    /\ ret.op \in {"PopFront", "PopBack", "Front", "Back"} /\ ret.pre.dq.length = 0
          => ret.val = Zero /\ ret.ok = FALSE /\ dq = ret.pre.dq /\ mem = ret.pre.mem
    /\ ret.op \in {"Pop", "Top"} /\ ret.pre.st.top = 0
          => ret.val = Zero /\ ret.ok = FALSE /\ st = ret.pre.st /\ mem = ret.pre.mem

\* a pop on a Deque that was emptied by pops, its front away from slot 0
C9_Witness ==
    /\ ret.op = "PopBack"
    /\ ret.pre.dq.length = 0
    /\ ret.pre.dq.front # 0
    /\ ret.ok = FALSE

(***************************************************************************)
(* SpecIndex: At, Set, Swap with any index, one call at a time.             *)
(***************************************************************************)

\* most elements of the container of an indexed-access run
MaxIdxFill == 3

\* most calls of an indexed-access run
MaxIdxOps == 2

\* the indices tried: from two before -count to two past count
Indices == (0 - MaxIdxFill - 2)..(MaxIdxFill + 2)

InitIndex ==
    /\ NoThreads
    /\ \/ /\ cfg = [name |-> "deque", n |-> 0]
          /\ \E nf \in 0..MaxIdxFill : \E nb \in 0..(MaxIdxFill - nf) :
                /\ mem = FilledDeque(nf, nb).m
                /\ dq = FilledDeque(nf, nb).q
          /\ st = NoStack
       \/ /\ cfg = [name |-> "stack", n |-> 0]
          /\ \E np \in 0..MaxIdxFill :
                /\ mem = FilledStack(np).m
                /\ st = FilledStack(np).s
          /\ dq = NoDeque
    /\ abs = <<>>
    /\ hist = <<>>
    /\ ret = NoRet
    /\ nops = 0

IndexCall(op, arg, r) ==
    /\ nops < MaxIdxOps
    /\ mem' = r.m
    /\ ret' = [NoRet EXCEPT !.op = op, !.arg = arg, !.val = r.val, !.ok = r.ok,
                            !.pre = Pre]
    /\ nops' = nops + 1
    /\ UNCHANGED <<abs, hist, cfg, concVars>>

IndexAt(i) ==
    /\ cfg.name = "deque"
    /\ IndexCall("At", <<i>>, ReadOnly(Deque_At(mem, dq, i)))
    /\ UNCHANGED <<dq, st>>

IndexSet(i) ==
    /\ cfg.name = "deque"
    /\ LET r == Deque_Set(mem, dq, i, FreshVal)
       IN  /\ IndexCall("Set", <<i>>, [m |-> r.m, val |-> Zero, ok |-> r.ok])
           /\ dq' = r.q
    /\ UNCHANGED st

IndexSwap(i, j) ==
    /\ cfg.name = "deque"
    /\ LET r == Deque_Swap(mem, dq, i, j)
       IN  /\ IndexCall("Swap", <<i, j>>, [m |-> r.m, val |-> Zero, ok |-> r.ok])
           /\ dq' = r.q
    /\ UNCHANGED st

IndexStackAt(i) ==
    /\ cfg.name = "stack"
    /\ IndexCall("StackAt", <<i>>, ReadOnlyS(Stack_At(mem, st, i)))
    /\ UNCHANGED <<dq, st>>

IndexStackSet(i) ==
    /\ cfg.name = "stack"
    /\ LET r == Stack_Set(mem, st, i, FreshVal)
       IN  /\ IndexCall("StackSet", <<i>>, [m |-> r.m, val |-> Zero, ok |-> r.ok])
           /\ st' = r.s
    /\ UNCHANGED dq

NextIndex ==
    \/ \E i \in Indices : IndexAt(i)
    \/ \E i \in Indices : IndexSet(i)
    \/ \E i, j \in Indices : IndexSwap(i, j)
    \/ \E i \in Indices : IndexStackAt(i)
    \/ \E i \in Indices : IndexStackSet(i)

SpecIndex == InitIndex /\ [][NextIndex]_vars

\* the index of the last call resolved against the count before the call
OutOfRange(i, count) == Resolve(i, count) < 0 \/ Resolve(i, count) >= count

\* C10: an index that resolves outside [0, count) fails and changes nothing:
\* Deque.At and Stack.At return (zero, false); Deque.Set, Stack.Set and
\* Deque.Swap return false; elements, count and capacity stay as they were.
C10_OutOfRangeFails ==
    LET dcount == ret.pre.dq.length
        scount == ret.pre.st.top
    IN  /\ ret.op \in {"At", "Set"} /\ OutOfRange(ret.arg[1], dcount)
              => ret.ok = FALSE /\ ret.val = Zero /\ dq = ret.pre.dq /\ mem = ret.pre.mem
        /\ ret.op = "Swap"
           /\ (OutOfRange(ret.arg[1], dcount) \/ OutOfRange(ret.arg[2], dcount))
              => ret.ok = FALSE /\ dq = ret.pre.dq /\ mem = ret.pre.mem
        /\ ret.op \in {"StackAt", "StackSet"} /\ OutOfRange(ret.arg[1], scount)
              => ret.ok = FALSE /\ ret.val = Zero /\ st = ret.pre.st /\ mem = ret.pre.mem

\* a Swap refused for one index just below -count, after an accepted Set
C10_Witness ==
    /\ ret.op = "Swap"
    /\ ret.pre.dq.length > 0
    /\ ret.arg[1] = 0
    /\ ret.arg[2] = 0 - ret.pre.dq.length - 1
    /\ ret.ok = FALSE
    /\ nops = 2
    /\ ret.pre.mem # FilledDeque(0, ret.pre.dq.length).m

(***************************************************************************)
(* Goroutines.  A goroutine makes the calls of prog[t] in order; the head   *)
(* of prog[t] is the call it is in, pc[t] the statement of that call it     *)
(* will execute next, loc[t] the call's local variables.  One step is one   *)
(* access to shared memory (an atomic load, store, add or compare-and-swap, *)
(* a slot read or write, a lock or unlock) with the local computation       *)
(* around it.                                                               *)
(***************************************************************************)

NoLoc == [val |-> Zero, back |-> 0, front |-> 0, length |-> 0, top |-> 0,
          header |-> 0, capacity |-> 0, len1 |-> 0, newBack |-> 0,
          newCap |-> 0, oldHeader |-> 0, rFront |-> 0, rBack |-> 0,
          rLength |-> 0, newHeader |-> 0, retpc |-> "none"]

StaleIf(b) == IF b THEN {"stale"} ELSE {}

OobIf(b) == IF b THEN {"oob"} ELSE {}

\* the first statement of each call
Entry(op) ==
    CASE op = "PushBack"  -> "PushBack_LoadBack"
      [] op = "PushFront" -> "PushFront_Lock"
      [] op = "PopBack"   -> "PopBack_LoadLength"
      [] op = "PopFront"  -> "PopFront_LoadLength"
      [] op = "Len"       -> "Len_Load"
      [] op = "Push"      -> "Push_LoadTop"
      [] op = "Pop"       -> "Pop_LoadTop"
      [] op = "Length"    -> "Length_Load"
      [] op = "Clear"     -> "Clear_Lock"
      [] op = "Copy"      -> "Copy_Lock"

\* goroutine t is at statement l
AtPc(t, l) == ~crashed /\ t \in DOMAIN pc /\ pc[t] = l

Goto(t, l) == pc' = [pc EXCEPT ![t] = l]

\* the call returns: the goroutine goes on to its next call
Next_Call(t) ==
    LET rest == Tail(prog[t])
    IN  /\ prog' = [prog EXCEPT ![t] = rest]
        /\ pc' = [pc EXCEPT ![t] = IF rest = <<>> THEN "done" ELSE Entry(rest[1].op)]
        /\ loc' = [loc EXCEPT ![t] = IF rest = <<>> THEN NoLoc
                                      ELSE [NoLoc EXCEPT !.val = rest[1].val]]

ReturnVoid(t) == Next_Call(t) /\ UNCHANGED res

Return(t, r) == Next_Call(t) /\ res' = [res EXCEPT ![t] = Append(@, r)]

\* the goroutines of a run, each with its calls, before any has started
Start(progs) ==
    /\ prog = progs
    /\ pc = [t \in DOMAIN progs |->
                IF progs[t] = <<>> THEN "done" ELSE Entry(progs[t][1].op)]
    /\ loc = [t \in DOMAIN progs |->
                IF progs[t] = <<>> THEN NoLoc ELSE [NoLoc EXCEPT !.val = progs[t][1].val]]
    /\ res = [t \in DOMAIN progs |-> <<>>]
    /\ mu = 0
    /\ crashed = FALSE
    /\ faults = {}
    /\ behind = {}

\* the words behind array id that writes outside it have stored, without
\* the one at index i
Elsewhere(id, i) == {w \in behind : w[1] # id \/ w[2] # i}

\* (*[1 << 30]T)(header.data)[i] = v by a goroutine: the slot is written; a
\* write outside the array stores v in the word that lies there, or faults
UnsafeWrite(id, i, v, current) ==
    /\ mem' = Store(mem, id, i, v)
    /\ behind' = IF InArr(mem, id, i) THEN behind
                 ELSE Elsewhere(id, i) \cup {<<id, i, v>>}
    /\ faults' = faults \cup StaleIf(id # current) \cup OobIf(~InArr(mem, id, i))
    /\ crashed' \in (IF InArr(mem, id, i) THEN {FALSE} ELSE {FALSE, TRUE})

\* what (*[1 << 30]T)(header.data)[i] may read: the slot; outside the array
\* the word that lies there, which holds what a write outside the array
\* stored in it, and whatever else as long as nothing was stored
UnsafeRead(id, i) ==
    IF InArr(mem, id, i) THEN {mem[id][i + 1]}
    ELSE IF Elsewhere(id, i) # behind THEN {w[3] : w \in behind \ Elsewhere(id, i)}
    ELSE {Junk, Zero}

AllDone == \A t \in DOMAIN pc : pc[t] = "done"

seqVars == <<abs, hist, ret, nops>>

NoSeq == abs = <<>> /\ hist = <<>> /\ ret = NoRet /\ nops = 0

(***************************************************************************)
(* Deque.internalResize, step by step (the caller holds q.mu).              *)
(***************************************************************************)

Resize_LoadHeader(t) ==
    /\ AtPc(t, "Resize_LoadHeader")
    /\ loc' = [loc EXCEPT ![t].oldHeader = dq.data]
    /\ Goto(t, "Resize_LoadFront")
    /\ UNCHANGED <<mem, dq, st, mu, prog, res, crashed, faults, behind, seqVars, cfg>>

Resize_LoadFront(t) ==
    /\ AtPc(t, "Resize_LoadFront")
    /\ loc' = [loc EXCEPT ![t].rFront = dq.front]
    /\ Goto(t, "Resize_LoadBack")
    /\ UNCHANGED <<mem, dq, st, mu, prog, res, crashed, faults, behind, seqVars, cfg>>

Resize_LoadBack(t) ==
    /\ AtPc(t, "Resize_LoadBack")
    /\ loc' = [loc EXCEPT ![t].rBack = dq.back]
    /\ Goto(t, "Resize_LoadLength")
    /\ UNCHANGED <<mem, dq, st, mu, prog, res, crashed, faults, behind, seqVars, cfg>>

Resize_LoadLength(t) ==
    /\ AtPc(t, "Resize_LoadLength")
    /\ loc' = [loc EXCEPT ![t].rLength = dq.length]
    /\ Goto(t, "Resize_Copy")
    /\ UNCHANGED <<mem, dq, st, mu, prog, res, crashed, faults, behind, seqVars, cfg>>

\* make and the one or two copy calls; a[front:cap] with front > cap panics
Resize_Copy(t) ==
    /\ AtPc(t, "Resize_Copy")
    /\ LET l == loc[t]
           q == [data |-> l.oldHeader, front |-> l.rFront, back |-> l.rBack,
                 length |-> l.rLength, initCap |-> dq.initCap]
       IN  IF l.rFront >= l.rBack /\ l.rFront > Cap(mem, l.oldHeader)
           THEN /\ crashed' = TRUE
                /\ UNCHANGED <<mem, loc, pc>>
           ELSE /\ mem' = Deque_internalResize(mem, q, l.newCap).m
                /\ loc' = [loc EXCEPT ![t].newHeader = Len(mem) + 1]
                /\ Goto(t, "Resize_StoreData")
                /\ UNCHANGED crashed
    /\ UNCHANGED <<dq, st, mu, prog, res, faults, behind, seqVars, cfg>>

Resize_StoreData(t) ==
    /\ AtPc(t, "Resize_StoreData")
    /\ dq' = [dq EXCEPT !.data = loc[t].newHeader]
    /\ Goto(t, "Resize_StoreFront")
    /\ UNCHANGED <<mem, st, mu, loc, prog, res, crashed, faults, behind, seqVars, cfg>>

Resize_StoreFront(t) ==
    /\ AtPc(t, "Resize_StoreFront")
    /\ dq' = [dq EXCEPT !.front = 0]
    /\ Goto(t, "Resize_StoreBack")
    /\ UNCHANGED <<mem, st, mu, loc, prog, res, crashed, faults, behind, seqVars, cfg>>

Resize_StoreBack(t) ==
    /\ AtPc(t, "Resize_StoreBack")
    /\ dq' = [dq EXCEPT !.back = loc[t].rLength]
    /\ Goto(t, loc[t].retpc)
    /\ UNCHANGED <<mem, st, mu, loc, prog, res, crashed, faults, behind, seqVars, cfg>>

Resize(t) ==
    \/ Resize_LoadHeader(t) \/ Resize_LoadFront(t) \/ Resize_LoadBack(t)
    \/ Resize_LoadLength(t) \/ Resize_Copy(t) \/ Resize_StoreData(t)
    \/ Resize_StoreFront(t) \/ Resize_StoreBack(t)

(***************************************************************************)
(* Deque.PushBack, step by step.                                            *)
(***************************************************************************)

PushBack_LoadBack(t) ==
    /\ AtPc(t, "PushBack_LoadBack")
    /\ loc' = [loc EXCEPT ![t].back = dq.back]
    /\ Goto(t, "PushBack_LoadLength")
    /\ UNCHANGED <<mem, dq, st, mu, prog, res, crashed, faults, behind, seqVars, cfg>>

PushBack_LoadLength(t) ==
    /\ AtPc(t, "PushBack_LoadLength")
    /\ loc' = [loc EXCEPT ![t].length = dq.length]
    /\ Goto(t, "PushBack_LoadHeader")
    /\ UNCHANGED <<mem, dq, st, mu, prog, res, crashed, faults, behind, seqVars, cfg>>

\* header, capacity := ...; if length < capacity
PushBack_LoadHeader(t) ==
    /\ AtPc(t, "PushBack_LoadHeader")
    /\ loc' = [loc EXCEPT ![t].header = dq.data, ![t].capacity = Cap(mem, dq.data)]
    /\ Goto(t, IF loc[t].length < Cap(mem, dq.data) THEN "PushBack_CAS"
               ELSE "PushBack_Lock")
    /\ UNCHANGED <<mem, dq, st, mu, prog, res, crashed, faults, behind, seqVars, cfg>>

PushBack_CAS(t) ==
    /\ AtPc(t, "PushBack_CAS")
    /\ IF dq.back = loc[t].back
       THEN /\ dq' = [dq EXCEPT !.back = (loc[t].back + 1) % loc[t].capacity]
            /\ Goto(t, "PushBack_Write")
       ELSE /\ Goto(t, "PushBack_LoadBack")
            /\ UNCHANGED dq
    /\ UNCHANGED <<mem, st, mu, loc, prog, res, crashed, faults, behind, seqVars, cfg>>

PushBack_Write(t) ==
    /\ AtPc(t, "PushBack_Write")
    /\ UnsafeWrite(loc[t].header, loc[t].back, loc[t].val, dq.data)
    /\ Goto(t, "PushBack_IncLength")
    /\ UNCHANGED <<dq, st, mu, loc, prog, res, seqVars, cfg>>

\* a length update that stores the length read before plus one
PushBack_IncLength_Snapshot(t) ==
    /\ AtPc(t, "PushBack_IncLength")
    /\ dq' = [dq EXCEPT !.length = loc[t].length + 1]
    /\ ReturnVoid(t)
    /\ UNCHANGED <<mem, st, mu, crashed, faults, behind, seqVars, cfg>>

PushBack_IncLength(t) ==
    /\ AtPc(t, "PushBack_IncLength")
    /\ dq' = [dq EXCEPT !.length = dq.length + 1]
    /\ ReturnVoid(t)
    /\ UNCHANGED <<mem, st, mu, crashed, faults, behind, seqVars, cfg>>

PushBack_Lock(t) ==
    /\ AtPc(t, "PushBack_Lock")
    /\ mu = 0
    /\ mu' = t
    /\ Goto(t, "PushBack_Recheck_LoadHeader")
    /\ UNCHANGED <<mem, dq, st, loc, prog, res, crashed, faults, behind, seqVars, cfg>>

PushBack_Recheck_LoadHeader(t) ==
    /\ AtPc(t, "PushBack_Recheck_LoadHeader")
    /\ loc' = [loc EXCEPT ![t].header = dq.data]
    /\ Goto(t, "PushBack_Recheck")
    /\ UNCHANGED <<mem, dq, st, mu, prog, res, crashed, faults, behind, seqVars, cfg>>

\* if atomic.LoadInt32(&q.length) == int32(header.cap) { newCap := ... }
PushBack_Recheck(t) ==
    /\ AtPc(t, "PushBack_Recheck")
    /\ LET c == Cap(mem, loc[t].header)
       IN  IF dq.length = c
           THEN /\ loc' = [loc EXCEPT ![t].newCap = IF c * 2 = 0 THEN dq.initCap ELSE c * 2,
                                      ![t].retpc = "PushBack_Reload"]
                /\ Goto(t, "Resize_LoadHeader")
           ELSE /\ Goto(t, "PushBack_Locked_LoadBack")
                /\ UNCHANGED loc
    /\ UNCHANGED <<mem, dq, st, mu, prog, res, crashed, faults, behind, seqVars, cfg>>

PushBack_Reload(t) ==
    /\ AtPc(t, "PushBack_Reload")
    /\ loc' = [loc EXCEPT ![t].header = dq.data]
    /\ Goto(t, "PushBack_Locked_LoadBack")
    /\ UNCHANGED <<mem, dq, st, mu, prog, res, crashed, faults, behind, seqVars, cfg>>

PushBack_Locked_LoadBack(t) ==
    /\ AtPc(t, "PushBack_Locked_LoadBack")
    /\ loc' = [loc EXCEPT ![t].back = dq.back, ![t].capacity = Cap(mem, loc[t].header)]
    /\ Goto(t, "PushBack_Locked_Write")
    /\ UNCHANGED <<mem, dq, st, mu, prog, res, crashed, faults, behind, seqVars, cfg>>

PushBack_Locked_Write(t) ==
    /\ AtPc(t, "PushBack_Locked_Write")
    /\ UnsafeWrite(loc[t].header, loc[t].back, loc[t].val, dq.data)
    /\ Goto(t, "PushBack_Locked_StoreBack")
    /\ UNCHANGED <<dq, st, mu, loc, prog, res, seqVars, cfg>>

PushBack_Locked_StoreBack(t) ==
    /\ AtPc(t, "PushBack_Locked_StoreBack")
    /\ dq' = [dq EXCEPT !.back = (loc[t].back + 1) % loc[t].capacity]
    /\ Goto(t, "PushBack_Locked_IncLength")
    /\ UNCHANGED <<mem, st, mu, loc, prog, res, crashed, faults, behind, seqVars, cfg>>

PushBack_Locked_IncLength(t) ==
    /\ AtPc(t, "PushBack_Locked_IncLength")
    /\ dq' = [dq EXCEPT !.length = dq.length + 1]
    /\ Goto(t, "PushBack_Unlock")
    /\ UNCHANGED <<mem, st, mu, loc, prog, res, crashed, faults, behind, seqVars, cfg>>

PushBack_Unlock(t) ==
    /\ AtPc(t, "PushBack_Unlock")
    /\ mu' = 0
    /\ ReturnVoid(t)
    /\ UNCHANGED <<mem, dq, st, crashed, faults, behind, seqVars, cfg>>

PushBack(t) ==
    \/ PushBack_LoadBack(t) \/ PushBack_LoadLength(t) \/ PushBack_LoadHeader(t)
    \/ PushBack_CAS(t) \/ PushBack_Write(t) \/ PushBack_IncLength(t)
    \/ PushBack_Lock(t) \/ PushBack_Recheck_LoadHeader(t) \/ PushBack_Recheck(t)
    \/ PushBack_Reload(t) \/ PushBack_Locked_LoadBack(t)
    \/ PushBack_Locked_Write(t) \/ PushBack_Locked_StoreBack(t)
    \/ PushBack_Locked_IncLength(t) \/ PushBack_Unlock(t)

(***************************************************************************)
(* Deque.PushFront, step by step (all of it under q.mu).                    *)
(***************************************************************************)

PushFront_Lock(t) ==
    /\ AtPc(t, "PushFront_Lock")
    /\ mu = 0
    /\ mu' = t
    /\ Goto(t, "PushFront_LoadHeader")
    /\ UNCHANGED <<mem, dq, st, loc, prog, res, crashed, faults, behind, seqVars, cfg>>

PushFront_LoadHeader(t) ==
    /\ AtPc(t, "PushFront_LoadHeader")
    /\ loc' = [loc EXCEPT ![t].header = dq.data]
    /\ Goto(t, "PushFront_Check")
    /\ UNCHANGED <<mem, dq, st, mu, prog, res, crashed, faults, behind, seqVars, cfg>>

PushFront_Check(t) ==
    /\ AtPc(t, "PushFront_Check")
    /\ LET c == Cap(mem, loc[t].header)
       IN  IF dq.length = c
           THEN /\ loc' = [loc EXCEPT ![t].newCap = IF c * 2 = 0 THEN dq.initCap ELSE c * 2,
                                      ![t].retpc = "PushFront_Reload"]
                /\ Goto(t, "Resize_LoadHeader")
           ELSE /\ Goto(t, "PushFront_LoadFront")
                /\ UNCHANGED loc
    /\ UNCHANGED <<mem, dq, st, mu, prog, res, crashed, faults, behind, seqVars, cfg>>

PushFront_Reload(t) ==
    /\ AtPc(t, "PushFront_Reload")
    /\ loc' = [loc EXCEPT ![t].header = dq.data]
    /\ Goto(t, "PushFront_LoadFront")
    /\ UNCHANGED <<mem, dq, st, mu, prog, res, crashed, faults, behind, seqVars, cfg>>

\* front := ...; newFront := (front - 1 + cap) % cap
PushFront_LoadFront(t) ==
    /\ AtPc(t, "PushFront_LoadFront")
    /\ LET c == Cap(mem, loc[t].header)
       IN  loc' = [loc EXCEPT ![t].front = (dq.front - 1 + c) % c]
    /\ Goto(t, "PushFront_Write")
    /\ UNCHANGED <<mem, dq, st, mu, prog, res, crashed, faults, behind, seqVars, cfg>>

PushFront_Write(t) ==
    /\ AtPc(t, "PushFront_Write")
    /\ UnsafeWrite(loc[t].header, loc[t].front, loc[t].val, dq.data)
    /\ Goto(t, "PushFront_StoreFront")
    /\ UNCHANGED <<dq, st, mu, loc, prog, res, seqVars, cfg>>

PushFront_StoreFront(t) ==
    /\ AtPc(t, "PushFront_StoreFront")
    /\ dq' = [dq EXCEPT !.front = loc[t].front]
    /\ Goto(t, "PushFront_IncLength")
    /\ UNCHANGED <<mem, st, mu, loc, prog, res, crashed, faults, behind, seqVars, cfg>>

PushFront_IncLength(t) ==
    /\ AtPc(t, "PushFront_IncLength")
    /\ dq' = [dq EXCEPT !.length = dq.length + 1]
    /\ Goto(t, "PushFront_Unlock")
    /\ UNCHANGED <<mem, st, mu, loc, prog, res, crashed, faults, behind, seqVars, cfg>>

PushFront_Unlock(t) ==
    /\ AtPc(t, "PushFront_Unlock")
    /\ mu' = 0
    /\ ReturnVoid(t)
    /\ UNCHANGED <<mem, dq, st, crashed, faults, behind, seqVars, cfg>>

PushFront(t) ==
    \/ PushFront_Lock(t) \/ PushFront_LoadHeader(t) \/ PushFront_Check(t)
    \/ PushFront_Reload(t) \/ PushFront_LoadFront(t) \/ PushFront_Write(t)
    \/ PushFront_StoreFront(t) \/ PushFront_IncLength(t) \/ PushFront_Unlock(t)

(***************************************************************************)
(* Deque.PopBack and Deque.PopFront, step by step.                          *)
(***************************************************************************)

PopBack_LoadLength(t) ==
    /\ AtPc(t, "PopBack_LoadLength")
    /\ IF dq.length = 0
       THEN Return(t, [op |-> "PopBack", val |-> Zero, ok |-> FALSE])
       ELSE /\ Goto(t, "PopBack_LoadBack")
            /\ UNCHANGED <<loc, prog, res>>
    /\ UNCHANGED <<mem, dq, st, mu, crashed, faults, behind, seqVars, cfg>>

PopBack_LoadBack(t) ==
    /\ AtPc(t, "PopBack_LoadBack")
    /\ loc' = [loc EXCEPT ![t].back = dq.back]
    /\ Goto(t, "PopBack_Len1")
    /\ UNCHANGED <<mem, dq, st, mu, prog, res, crashed, faults, behind, seqVars, cfg>>

\* the first len(q.currentData()) of newBack
PopBack_Len1(t) ==
    /\ AtPc(t, "PopBack_Len1")
    /\ loc' = [loc EXCEPT ![t].len1 = Cap(mem, dq.data)]
    /\ Goto(t, "PopBack_Len2")
    /\ UNCHANGED <<mem, dq, st, mu, prog, res, crashed, faults, behind, seqVars, cfg>>

\* the second len(q.currentData()): newBack := (back - 1 + len1) % len2
PopBack_Len2(t) ==
    /\ AtPc(t, "PopBack_Len2")
    /\ loc' = [loc EXCEPT ![t].newBack =
                  (loc[t].back - 1 + loc[t].len1) % Cap(mem, dq.data)]
    /\ Goto(t, "PopBack_CAS")
    /\ UNCHANGED <<mem, dq, st, mu, prog, res, crashed, faults, behind, seqVars, cfg>>

PopBack_CAS(t) ==
    /\ AtPc(t, "PopBack_CAS")
    /\ IF dq.back = loc[t].back
       THEN /\ dq' = [dq EXCEPT !.back = loc[t].newBack]
            /\ Goto(t, "PopBack_DecLength")
       ELSE /\ Goto(t, "PopBack_LoadLength")
            /\ UNCHANGED dq
    /\ UNCHANGED <<mem, st, mu, loc, prog, res, crashed, faults, behind, seqVars, cfg>>

\* if atomic.AddInt32(&q.length, -1) >= 0
PopBack_DecLength(t) ==
    /\ AtPc(t, "PopBack_DecLength")
    /\ dq' = [dq EXCEPT !.length = dq.length - 1]
    /\ Goto(t, IF dq.length - 1 >= 0 THEN "PopBack_LoadData" ELSE "PopBack_RevertBack")
    /\ UNCHANGED <<mem, st, mu, loc, prog, res, crashed, faults, behind, seqVars, cfg>>

PopBack_LoadData(t) ==
    /\ AtPc(t, "PopBack_LoadData")
    /\ loc' = [loc EXCEPT ![t].header = dq.data]
    /\ Goto(t, "PopBack_Read")
    /\ UNCHANGED <<mem, dq, st, mu, prog, res, crashed, faults, behind, seqVars, cfg>>

\* q.currentData()[newBack]: a slice index, which panics out of range
PopBack_Read(t) ==
    /\ AtPc(t, "PopBack_Read")
    /\ IF InArr(mem, loc[t].header, loc[t].newBack)
       THEN /\ Return(t, [op |-> "PopBack",
                          val |-> Load(mem, loc[t].header, loc[t].newBack),
                          ok |-> TRUE])
            /\ UNCHANGED crashed
       ELSE /\ crashed' = TRUE
            /\ UNCHANGED <<pc, loc, prog, res>>
    /\ UNCHANGED <<mem, dq, st, mu, faults, behind, seqVars, cfg>>

PopBack_RevertBack(t) ==
    /\ AtPc(t, "PopBack_RevertBack")
    /\ dq' = [dq EXCEPT !.back = loc[t].back]
    /\ Goto(t, "PopBack_RevertLength")
    /\ UNCHANGED <<mem, st, mu, loc, prog, res, crashed, faults, behind, seqVars, cfg>>

PopBack_RevertLength(t) ==
    /\ AtPc(t, "PopBack_RevertLength")
    /\ dq' = [dq EXCEPT !.length = dq.length + 1]
    /\ Goto(t, "PopBack_LoadLength")
    /\ UNCHANGED <<mem, st, mu, loc, prog, res, crashed, faults, behind, seqVars, cfg>>

PopBack(t) ==
    \/ PopBack_LoadLength(t) \/ PopBack_LoadBack(t) \/ PopBack_Len1(t)
    \/ PopBack_Len2(t) \/ PopBack_CAS(t) \/ PopBack_DecLength(t)
    \/ PopBack_LoadData(t) \/ PopBack_Read(t)
    \/ PopBack_RevertBack(t) \/ PopBack_RevertLength(t)

PopFront_LoadLength(t) ==
    /\ AtPc(t, "PopFront_LoadLength")
    /\ IF dq.length = 0
       THEN Return(t, [op |-> "PopFront", val |-> Zero, ok |-> FALSE])
       ELSE /\ Goto(t, "PopFront_LoadFront")
            /\ UNCHANGED <<loc, prog, res>>
    /\ UNCHANGED <<mem, dq, st, mu, crashed, faults, behind, seqVars, cfg>>

PopFront_LoadFront(t) ==
    /\ AtPc(t, "PopFront_LoadFront")
    /\ loc' = [loc EXCEPT ![t].front = dq.front]
    /\ Goto(t, "PopFront_Len1")
    /\ UNCHANGED <<mem, dq, st, mu, prog, res, crashed, faults, behind, seqVars, cfg>>

\* len(q.currentData()), an argument of the compare-and-swap
PopFront_Len1(t) ==
    /\ AtPc(t, "PopFront_Len1")
    /\ loc' = [loc EXCEPT ![t].len1 = Cap(mem, dq.data)]
    /\ Goto(t, "PopFront_CAS")
    /\ UNCHANGED <<mem, dq, st, mu, prog, res, crashed, faults, behind, seqVars, cfg>>

PopFront_CAS(t) ==
    /\ AtPc(t, "PopFront_CAS")
    /\ IF dq.front = loc[t].front
       THEN /\ dq' = [dq EXCEPT !.front = (loc[t].front + 1) % loc[t].len1]
            /\ Goto(t, "PopFront_DecLength")
       ELSE /\ Goto(t, "PopFront_LoadLength")
            /\ UNCHANGED dq
    /\ UNCHANGED <<mem, st, mu, loc, prog, res, crashed, faults, behind, seqVars, cfg>>

PopFront_DecLength(t) ==
    /\ AtPc(t, "PopFront_DecLength")
    /\ dq' = [dq EXCEPT !.length = dq.length - 1]
    /\ Goto(t, IF dq.length - 1 >= 0 THEN "PopFront_LoadData" ELSE "PopFront_RevertFront")
    /\ UNCHANGED <<mem, st, mu, loc, prog, res, crashed, faults, behind, seqVars, cfg>>

PopFront_LoadData(t) ==
    /\ AtPc(t, "PopFront_LoadData")
    /\ loc' = [loc EXCEPT ![t].header = dq.data]
    /\ Goto(t, "PopFront_Read")
    /\ UNCHANGED <<mem, dq, st, mu, prog, res, crashed, faults, behind, seqVars, cfg>>

PopFront_Read(t) ==
    /\ AtPc(t, "PopFront_Read")
    /\ IF InArr(mem, loc[t].header, loc[t].front)
       THEN /\ Return(t, [op |-> "PopFront",
                          val |-> Load(mem, loc[t].header, loc[t].front),
                          ok |-> TRUE])
            /\ UNCHANGED crashed
       ELSE /\ crashed' = TRUE
            /\ UNCHANGED <<pc, loc, prog, res>>
    /\ UNCHANGED <<mem, dq, st, mu, faults, behind, seqVars, cfg>>

PopFront_RevertFront(t) ==
    /\ AtPc(t, "PopFront_RevertFront")
    /\ dq' = [dq EXCEPT !.front = loc[t].front]
    /\ Goto(t, "PopFront_RevertLength")
    /\ UNCHANGED <<mem, st, mu, loc, prog, res, crashed, faults, behind, seqVars, cfg>>

PopFront_RevertLength(t) ==
    /\ AtPc(t, "PopFront_RevertLength")
    /\ dq' = [dq EXCEPT !.length = dq.length + 1]
    /\ Goto(t, "PopFront_LoadLength")
    /\ UNCHANGED <<mem, st, mu, loc, prog, res, crashed, faults, behind, seqVars, cfg>>

PopFront(t) ==
    \/ PopFront_LoadLength(t) \/ PopFront_LoadFront(t) \/ PopFront_Len1(t)
    \/ PopFront_CAS(t) \/ PopFront_DecLength(t) \/ PopFront_LoadData(t)
    \/ PopFront_Read(t) \/ PopFront_RevertFront(t) \/ PopFront_RevertLength(t)

\* Deque.Len
Len_Load(t) ==
    /\ AtPc(t, "Len_Load")
    /\ Return(t, [op |-> "Len", val |-> dq.length, ok |-> TRUE])
    /\ UNCHANGED <<mem, dq, st, mu, crashed, faults, behind, seqVars, cfg>>

(***************************************************************************)
(* SpecPushBack: NumPushers goroutines, each calling PushBack               *)
(* PushesEach times, on a Deque a single caller has put Prefill elements    *)
(* into before.                                                             *)
(***************************************************************************)

NumPushers == 2

PushesEach == 5

Prefill == 0

\* the i-th value goroutine t pushes
PushVal(t, i) == 100 * t + i

PushBackCalls(t, n) == [i \in 1..n |-> [op |-> "PushBack", val |-> PushVal(t, i)]]

InitPushBack ==
    /\ mem = FilledDeque(0, Prefill).m
    /\ dq = FilledDeque(0, Prefill).q
    /\ st = NoStack
    /\ Start([t \in 1..NumPushers |-> PushBackCalls(t, PushesEach)])
    /\ NoSeq
    /\ cfg = [name |-> "pushback", n |-> PushesEach]

NextPushBack == \E t \in 1..NumPushers : PushBack(t) \/ Resize(t)

SpecPushBack == InitPushBack /\ [][NextPushBack]_vars

\* how often v is among the live elements
Count(seq, v) == Cardinality({k \in 1..Len(seq) : seq[k] = v})

Pushed == {PushVal(t, i) : t \in 1..NumPushers, i \in 1..PushesEach}
              \cup {BackVal(k) : k \in 1..Prefill}

\* C1: after all PushBack calls of all goroutines have returned, Len() is
\* the number of pushes (T*N, beside the elements pushed before the run)
\* and every pushed value is among the elements exactly once.
C1_NoPushLost ==
    cfg.name = "pushback" /\ AllDone =>
        /\ Deque_Len(dq) = Prefill + NumPushers * PushesEach
        /\ \A v \in Pushed : Count(Deque_Elems(mem, dq), v) = 1

\* C2: no PushBack writes its value through a reference to a backing array
\* that has been replaced.
C2_NoStaleWrite == "stale" \notin faults

(***************************************************************************)
(* SpecPushBF: one goroutine calls PushBack, one PushFront, one Len(), on a *)
(* Deque a single caller has put BFPrefill elements into before.            *)
(***************************************************************************)

BackPushes == 2

FrontPushes == 2

LenReads == 1

BFPrefill == 6

InitPushBF ==
    /\ mem = FilledDeque(0, BFPrefill).m
    /\ dq = FilledDeque(0, BFPrefill).q
    /\ st = NoStack
    /\ Start(<<PushBackCalls(1, BackPushes),
               [i \in 1..FrontPushes |-> [op |-> "PushFront", val |-> PushVal(2, i)]],
               [i \in 1..LenReads |-> [op |-> "Len", val |-> Zero]]>>)
    /\ NoSeq
    /\ cfg = [name |-> "pushbf", n |-> 0]

NextPushBF ==
    \E t \in 1..3 : PushBack(t) \/ PushFront(t) \/ Resize(t) \/ Len_Load(t)

SpecPushBF == InitPushBF /\ [][NextPushBF]_vars

\* C6: one goroutine calls PushBack k times, another PushFront m times, a
\* third only reads Len(); after all calls have returned Len() is k + m
\* (beside the elements pushed before the run), whatever the interleaving.
C6_LenCountsBothEnds ==
    cfg.name = "pushbf" /\ AllDone =>
        Deque_Len(dq) = BFPrefill + BackPushes + FrontPushes

\* C36: while one goroutine calls PushBack and another PushFront the length
\* never exceeds the capacity, and after all calls have returned every
\* pushed value is in the Deque once: the PushFront values in reverse push
\* order at the front, the elements of before, the PushBack values in push
\* order at the back.
C36_PushEndsDisjoint ==
    cfg.name = "pushbf" =>
        /\ dq.length <= Deque_Capacity(mem, dq)
        /\ AllDone =>
              Deque_Elems(mem, dq) =
                 [i \in 1..FrontPushes |-> PushVal(2, FrontPushes + 1 - i)]
                    \o FilledAbs(0, BFPrefill)
                    \o [i \in 1..BackPushes |-> PushVal(1, i)]

\* all calls returned, the storage was grown during the run, and the reader
\* saw a length between the first and the last push
C6_Witness ==
    /\ cfg.name = "pushbf"
    /\ AllDone
    /\ Deque_Capacity(mem, dq) = 2 * DefaultCap
    /\ Len(res[3]) = LenReads
    /\ res[3][1].val > BFPrefill
    /\ res[3][1].val < BFPrefill + BackPushes + FrontPushes

(***************************************************************************)
(* SpecMix: PushBack, PushFront, PopFront and PopBack from one goroutine    *)
(* each, on a Deque a single caller has left nearly empty or nearly full.   *)
(***************************************************************************)

\* elements in the nearly empty Deque
MixLow == 1

\* elements in the nearly full Deque
MixHigh == 7

\* PushBack calls of the pushing goroutine
MixPushes == 1

InitMix ==
    /\ \E n \in {MixLow, MixHigh} :
          /\ mem = FilledDeque(0, n).m
          /\ dq = FilledDeque(0, n).q
          /\ cfg = [name |-> "mix", n |-> n]
    /\ st = NoStack
    /\ Start(<<PushBackCalls(1, MixPushes),
               <<[op |-> "PushFront", val |-> PushVal(2, 1)]>>,
               <<[op |-> "PopFront", val |-> Zero]>>,
               <<[op |-> "PopBack", val |-> Zero]>>>>)
    /\ NoSeq

NextMix ==
    \E t \in 1..4 :
        PushBack(t) \/ PushFront(t) \/ Resize(t) \/ PopFront(t) \/ PopBack(t)

SpecMix == InitMix /\ [][NextMix]_vars

\* C7: in every reachable state the length counter of the Deque is at least
\* 0 and at most the capacity of the current backing storage.
C7_LengthWithinCapacity ==
    cfg.name = "mix" => dq.length >= 0 /\ dq.length <= Deque_Capacity(mem, dq)

\* the lower half alone: the length counter is never below 0
C7_LengthNotNegative == cfg.name = "mix" => dq.length >= 0

\* the upper half alone: the length counter never exceeds the capacity
C7_LengthAtMostCap == cfg.name = "mix" => dq.length <= Deque_Capacity(mem, dq)

(***************************************************************************)
(* Stack.internalResize, step by step (the caller holds s.mu).              *)
(***************************************************************************)

StackResize_LoadHeader(t) ==
    /\ AtPc(t, "StackResize_LoadHeader")
    /\ loc' = [loc EXCEPT ![t].oldHeader = st.data]
    /\ Goto(t, "StackResize_LoadTop")
    /\ UNCHANGED <<mem, dq, st, mu, prog, res, crashed, faults, behind, seqVars, cfg>>

StackResize_LoadTop(t) ==
    /\ AtPc(t, "StackResize_LoadTop")
    /\ loc' = [loc EXCEPT ![t].top = st.top]
    /\ Goto(t, "StackResize_Copy")
    /\ UNCHANGED <<mem, dq, st, mu, prog, res, crashed, faults, behind, seqVars, cfg>>

\* make, and copy(newData, old[:top])
StackResize_Copy(t) ==
    /\ AtPc(t, "StackResize_Copy")
    /\ LET s == [data |-> loc[t].oldHeader, top |-> loc[t].top,
                 initCap |-> st.initCap]
       IN  mem' = Stack_internalResize(mem, s, loc[t].newCap).m
    /\ loc' = [loc EXCEPT ![t].newHeader = Len(mem) + 1]
    /\ Goto(t, "StackResize_StoreData")
    /\ UNCHANGED <<dq, st, mu, prog, res, crashed, faults, behind, seqVars, cfg>>

StackResize_StoreData(t) ==
    /\ AtPc(t, "StackResize_StoreData")
    /\ st' = [st EXCEPT !.data = loc[t].newHeader]
    /\ Goto(t, loc[t].retpc)
    /\ UNCHANGED <<mem, dq, mu, loc, prog, res, crashed, faults, behind, seqVars, cfg>>

StackResize(t) ==
    \/ StackResize_LoadHeader(t) \/ StackResize_LoadTop(t)
    \/ StackResize_Copy(t) \/ StackResize_StoreData(t)

(***************************************************************************)
(* Stack.Push, step by step.                                                *)
(***************************************************************************)

Push_LoadTop(t) ==
    /\ AtPc(t, "Push_LoadTop")
    /\ loc' = [loc EXCEPT ![t].top = st.top]
    /\ Goto(t, "Push_LoadHeader")
    /\ UNCHANGED <<mem, dq, st, mu, prog, res, crashed, faults, behind, seqVars, cfg>>

\* header := ...; if int(top) < header.cap
Push_LoadHeader(t) ==
    /\ AtPc(t, "Push_LoadHeader")
    /\ loc' = [loc EXCEPT ![t].header = st.data]
    /\ Goto(t, IF loc[t].top < Cap(mem, st.data) THEN "Push_CAS" ELSE "Push_Lock")
    /\ UNCHANGED <<mem, dq, st, mu, prog, res, crashed, faults, behind, seqVars, cfg>>

Push_CAS(t) ==
    /\ AtPc(t, "Push_CAS")
    /\ IF st.top = loc[t].top
       THEN /\ st' = [st EXCEPT !.top = loc[t].top + 1]
            /\ Goto(t, "Push_Write")
       ELSE /\ Goto(t, "Push_LoadTop")
            /\ UNCHANGED st
    /\ UNCHANGED <<mem, dq, mu, loc, prog, res, crashed, faults, behind, seqVars, cfg>>

Push_Write(t) ==
    /\ AtPc(t, "Push_Write")
    /\ UnsafeWrite(loc[t].header, loc[t].top, loc[t].val, st.data)
    /\ ReturnVoid(t)
    /\ UNCHANGED <<dq, st, mu, seqVars, cfg>>

Push_Lock(t) ==
    /\ AtPc(t, "Push_Lock")
    /\ mu = 0
    /\ mu' = t
    /\ Goto(t, "Push_Recheck_LoadHeader")
    /\ UNCHANGED <<mem, dq, st, loc, prog, res, crashed, faults, behind, seqVars, cfg>>

Push_Recheck_LoadHeader(t) ==
    /\ AtPc(t, "Push_Recheck_LoadHeader")
    /\ loc' = [loc EXCEPT ![t].header = st.data]
    /\ Goto(t, "Push_Recheck")
    /\ UNCHANGED <<mem, dq, st, mu, prog, res, crashed, faults, behind, seqVars, cfg>>

\* if int(atomic.LoadInt32(&s.top)) == header.cap { newCap := ... }
Push_Recheck(t) ==
    /\ AtPc(t, "Push_Recheck")
    /\ LET c == Cap(mem, loc[t].header)
       IN  IF st.top = c
           THEN /\ loc' = [loc EXCEPT ![t].newCap = IF c * 2 = 0 THEN st.initCap ELSE c * 2,
                                      ![t].retpc = "Push_Reload"]
                /\ Goto(t, "StackResize_LoadHeader")
           ELSE /\ Goto(t, "Push_Locked_LoadTop")
                /\ UNCHANGED loc
    /\ UNCHANGED <<mem, dq, st, mu, prog, res, crashed, faults, behind, seqVars, cfg>>

Push_Reload(t) ==
    /\ AtPc(t, "Push_Reload")
    /\ loc' = [loc EXCEPT ![t].header = st.data]
    /\ Goto(t, "Push_Locked_LoadTop")
    /\ UNCHANGED <<mem, dq, st, mu, prog, res, crashed, faults, behind, seqVars, cfg>>

Push_Locked_LoadTop(t) ==
    /\ AtPc(t, "Push_Locked_LoadTop")
    /\ loc' = [loc EXCEPT ![t].top = st.top]
    /\ Goto(t, "Push_Locked_Write")
    /\ UNCHANGED <<mem, dq, st, mu, prog, res, crashed, faults, behind, seqVars, cfg>>

Push_Locked_Write(t) ==
    /\ AtPc(t, "Push_Locked_Write")
    /\ UnsafeWrite(loc[t].header, loc[t].top, loc[t].val, st.data)
    /\ Goto(t, "Push_Locked_StoreTop")
    /\ UNCHANGED <<dq, st, mu, loc, prog, res, seqVars, cfg>>

Push_Locked_StoreTop(t) ==
    /\ AtPc(t, "Push_Locked_StoreTop")
    /\ st' = [st EXCEPT !.top = loc[t].top + 1]
    /\ Goto(t, "Push_Unlock")
    /\ UNCHANGED <<mem, dq, mu, loc, prog, res, crashed, faults, behind, seqVars, cfg>>

Push_Unlock(t) ==
    /\ AtPc(t, "Push_Unlock")
    /\ mu' = 0
    /\ ReturnVoid(t)
    /\ UNCHANGED <<mem, dq, st, crashed, faults, behind, seqVars, cfg>>

Push(t) ==
    \/ Push_LoadTop(t) \/ Push_LoadHeader(t) \/ Push_CAS(t) \/ Push_Write(t)
    \/ Push_Lock(t) \/ Push_Recheck_LoadHeader(t) \/ Push_Recheck(t)
    \/ Push_Reload(t) \/ Push_Locked_LoadTop(t) \/ Push_Locked_Write(t)
    \/ Push_Locked_StoreTop(t) \/ Push_Unlock(t)

(***************************************************************************)
(* Stack.Pop and Stack.Length, step by step.                                *)
(***************************************************************************)

\* a Pop without the check for the empty Stack
Pop_LoadTop_NoGuard(t) ==
    /\ AtPc(t, "Pop_LoadTop")
    /\ loc' = [loc EXCEPT ![t].top = st.top]
    /\ Goto(t, "Pop_CAS")
    /\ UNCHANGED <<mem, dq, st, mu, prog, res, crashed, faults, behind, seqVars, cfg>>

\* top := atomic.LoadInt32(&s.top); if top <= 0 { return zero, false }
Pop_LoadTop(t) ==
    /\ AtPc(t, "Pop_LoadTop")
    /\ IF st.top <= 0
       THEN Return(t, [op |-> "Pop", val |-> Zero, ok |-> FALSE])
       ELSE /\ loc' = [loc EXCEPT ![t].top = st.top]
            /\ Goto(t, "Pop_CAS")
            /\ UNCHANGED <<prog, res>>
    /\ UNCHANGED <<mem, dq, st, mu, crashed, faults, behind, seqVars, cfg>>

Pop_CAS(t) ==
    /\ AtPc(t, "Pop_CAS")
    /\ IF st.top = loc[t].top
       THEN /\ st' = [st EXCEPT !.top = loc[t].top - 1]
            /\ Goto(t, "Pop_LoadHeader")
       ELSE /\ Goto(t, "Pop_LoadTop")
            /\ UNCHANGED st
    /\ UNCHANGED <<mem, dq, mu, loc, prog, res, crashed, faults, behind, seqVars, cfg>>

Pop_LoadHeader(t) ==
    /\ AtPc(t, "Pop_LoadHeader")
    /\ loc' = [loc EXCEPT ![t].header = st.data]
    /\ Goto(t, "Pop_Read")
    /\ UNCHANGED <<mem, dq, st, mu, prog, res, crashed, faults, behind, seqVars, cfg>>

Pop_Read(t) ==
    /\ AtPc(t, "Pop_Read")
    /\ \E v \in UnsafeRead(loc[t].header, loc[t].top - 1) :
          Return(t, [op |-> "Pop", val |-> v, ok |-> TRUE])
    /\ faults' = faults \cup OobIf(~InArr(mem, loc[t].header, loc[t].top - 1))
    /\ UNCHANGED <<mem, dq, st, mu, crashed, seqVars, cfg, behind>>

Pop(t) == Pop_LoadTop(t) \/ Pop_CAS(t) \/ Pop_LoadHeader(t) \/ Pop_Read(t)

Length_Load(t) ==
    /\ AtPc(t, "Length_Load")
    /\ Return(t, [op |-> "Length", val |-> st.top, ok |-> TRUE])
    /\ UNCHANGED <<mem, dq, st, mu, crashed, faults, behind, seqVars, cfg>>

(***************************************************************************)
(* SpecStackConc: two goroutines call Push once each, one calls Pop         *)
(* StackPops times, one Length(), on a Stack a single caller has left empty *)
(* or full.                                                                 *)
(***************************************************************************)

\* Pop calls of the popping goroutine
StackPops == 2

InitStackConc ==
    /\ \E n \in {0, DefaultCap} :
          /\ mem = FilledStack(n).m
          /\ st = FilledStack(n).s
          /\ cfg = [name |-> "stack", n |-> n]
    /\ dq = NoDeque
    /\ Start(<<<<[op |-> "Push", val |-> PushVal(1, 1)]>>,
               <<[op |-> "Push", val |-> PushVal(2, 1)]>>,
               [i \in 1..StackPops |-> [op |-> "Pop", val |-> Zero]],
               <<[op |-> "Length", val |-> Zero]>>>>)
    /\ NoSeq

NextStackConc ==
    \E t \in 1..4 : Push(t) \/ StackResize(t) \/ Pop(t) \/ Length_Load(t)

SpecStackConc == InitStackConc /\ [][NextStackConc]_vars

\* C8: with two goroutines pushing, one popping and one reading Length(),
\* top is at least 0 in every reachable state, and so is every value
\* Length() has returned.
C8_LengthNeverNegative ==
    cfg.name = "stack" =>
        /\ st.top >= 0
        /\ \A i \in 1..Len(res[4]) : res[4][i].val >= 0

\* C32: while goroutines push and pop, top is at least 0 and at most the
\* capacity of the current backing array in every reachable state, and
\* every slot write a Push is about to make, on the fast path or under the
\* lock, targets an index below the capacity of the array it writes to.
C32_TopWithinCapacity ==
    cfg.name = "stack" =>
        /\ 0 <= st.top /\ st.top <= Stack_Capacity(mem, st)
        /\ \A t \in DOMAIN pc :
              pc[t] \in {"Push_Write", "Push_Locked_Write"} =>
                  InArr(mem, loc[t].header, loc[t].top)

\* the values the Push calls supplied: those of the run and those before it
StackPushed == {PushVal(1, 1), PushVal(2, 1)} \cup {BackVal(k) : k \in 1..cfg.n}

\* the values the Pop calls returned with ok = true, in order
PoppedVals ==
    LET RECURSIVE Oks(_)
        Oks(i) == IF i = 0 THEN <<>>
                  ELSE IF res[3][i].ok THEN Append(Oks(i - 1), res[3][i].val)
                  ELSE Oks(i - 1)
    IN  Oks(Len(res[3]))

\* the words data[0 .. top-1] as a reader finds them, the words behind the
\* array included where top is above the capacity
StackWords ==
    [k \in 1..st.top |->
        IF InArr(mem, st.data, k - 1) THEN mem[st.data][k]
        ELSE IF Elsewhere(st.data, k - 1) # behind
             THEN (CHOOSE w \in behind \ Elsewhere(st.data, k - 1) : TRUE)[3]
             ELSE Junk]

\* C35: every Pop that returned ok = true returned a value some Push
\* supplied and no other Pop returned, and once all calls have returned
\* every pushed value is either among the popped values or in the Stack,
\* once.
C35_NoValueLost ==
    cfg.name = "stack" =>
        /\ \A i \in 1..Len(PoppedVals) :
              /\ PoppedVals[i] \in StackPushed
              /\ Count(PoppedVals, PoppedVals[i]) = 1
        /\ AllDone =>
              /\ \A v \in StackPushed :
                    Count(PoppedVals, v) + Count(StackWords, v) = 1
              /\ Len(PoppedVals) + Stack_Length(st) = Cardinality(StackPushed)

\* the Stack started empty, all calls have returned, one Pop found the Stack
\* empty and one took an element a concurrent Push had put there
C8_Witness ==
    /\ cfg.name = "stack"
    /\ cfg.n = 0
    /\ AllDone
    /\ ~crashed
    /\ \E i \in 1..Len(res[3]) : ~res[3][i].ok
    /\ \E i \in 1..Len(res[3]) : res[3][i].ok
    /\ Len(res[4]) = 1

(***************************************************************************)
(* Swap with equal indices and negative indexing, on the calls of           *)
(* SpecIndex.                                                               *)
(***************************************************************************)

\* C11: Deque.Swap(i, j) returns false and changes nothing whenever i and j
\* resolve to the same position (Swap(2, 2) and Swap(0, -count) alike); it
\* returns true only when two distinct positions inside [0, count) were
\* exchanged.
C11_SwapEqualIndicesFails ==
    ret.op = "Swap" =>
        LET count == ret.pre.dq.length
            ri    == Resolve(ret.arg[1], count)
            rj    == Resolve(ret.arg[2], count)
        IN  /\ ri = rj => ret.ok = FALSE /\ dq = ret.pre.dq /\ mem = ret.pre.mem
            /\ ret.ok => ri # rj /\ ~OutOfRange(ret.arg[1], count)
                                 /\ ~OutOfRange(ret.arg[2], count)

\* C12: with count >= 1 elements, At(-1) returns what At(count-1) returns,
\* At(-count) what At(0) returns, and At(-(count+1)) returns ok = false, on a
\* Deque and on a Stack.
C12_NegativeIndexing ==
    /\ ret.op = "At" /\ ret.pre.dq.length >= 1 =>
          LET count == ret.pre.dq.length
              same(i) == /\ ret.ok
                         /\ Deque_At(ret.pre.mem, ret.pre.dq, i).ok
                         /\ ret.val = Deque_At(ret.pre.mem, ret.pre.dq, i).val
          IN  /\ ret.arg[1] = 0 - 1 => same(count - 1)
              /\ ret.arg[1] = 0 - count => same(0)
              /\ ret.arg[1] = 0 - (count + 1) => ~ret.ok
    /\ ret.op = "StackAt" /\ ret.pre.st.top >= 1 =>
          LET count == ret.pre.st.top
              same(i) == /\ ret.ok
                         /\ Stack_At(ret.pre.mem, ret.pre.st, i).ok
                         /\ ret.val = Stack_At(ret.pre.mem, ret.pre.st, i).val
          IN  /\ ret.arg[1] = 0 - 1 => same(count - 1)
              /\ ret.arg[1] = 0 - count => same(0)
              /\ ret.arg[1] = 0 - (count + 1) => ~ret.ok

\* At(-1) on a Deque of three elements whose live window wraps returned the
\* element pushed last at the back
C12_Witness ==
    /\ ret.op = "At"
    /\ ret.arg = <<0 - 1>>
    /\ ret.pre.dq.length = 3
    /\ ret.pre.dq.front > ret.pre.dq.back
    /\ ret.ok
    /\ ret.val = BackVal(2)

(***************************************************************************)
(* SpecStruct: the calls that rearrange or re-house a container            *)
(* (ShrinkToFit, Copy, Rotate, Reverse on a Deque; TrimToSize, Copy,        *)
(* Rotate, Reverse on a Stack), one call at a time, between pushes and      *)
(* pops.  ret is the last call with the state before it, hist holds the     *)
(* call before the last.  After Copy the run goes on with the copy.  A run  *)
(* ends when a call panics or touches memory outside the backing array.     *)
(***************************************************************************)

\* most PushFront calls before the run
MaxStructFront == 1

\* most PopFront calls before the run, after the pushes
MaxStructPop == 1

\* most PushBack (Deque) or Push (Stack) calls before the run
MaxStructBack == 9

\* calls of a run
MaxStructOps == 2

\* largest rotation distance, in either direction
MaxRot == 3

RotArgs == (0 - MaxRot)..MaxRot

\* largest capacity asked of Stack.Resize
MaxResize == 10

RECURSIVE PopFrontN(_, _)
PopFrontN(w, k) ==
    IF k = 0 THEN w
    ELSE LET p == PopFrontN(w, k - 1)
         IN  Deque_PopFront(p.m, p.q)

InitStruct ==
    /\ NoThreads
    /\ \/ /\ cfg = [name |-> "deque", n |-> 0]
          /\ \E nf \in 0..MaxStructFront : \E nb \in 0..MaxStructBack :
             \E pf \in 0..MaxStructPop :
                /\ mem = PopFrontN(FilledDeque(nf, nb), pf).m
                /\ dq = PopFrontN(FilledDeque(nf, nb), pf).q
          /\ st = NoStack
       \/ /\ cfg = [name |-> "stack", n |-> 0]
          /\ \E np \in 0..MaxStructBack :
                /\ mem = FilledStack(np).m
                /\ st = FilledStack(np).s
          /\ dq = NoDeque
    /\ abs = <<>>
    /\ hist = <<>>
    /\ ret = NoRet
    /\ nops = 0

\* a Deque call with result r: r.bad tells a panic or an access outside the array
StructCall(op, arg, r) ==
    /\ cfg.name = "deque"
    /\ nops < MaxStructOps
    /\ ~crashed /\ faults = {}
    /\ mem' = r.m
    /\ dq' = r.q
    /\ ret' = [NoRet EXCEPT !.op = op, !.arg = arg, !.val = r.val, !.ok = r.ok,
                            !.pre = Pre]
    /\ hist' = <<ret>>
    /\ nops' = nops + 1
    /\ crashed' = r.panic
    /\ faults' = OobIf(r.fault)
    /\ UNCHANGED <<st, abs, cfg, mu, pc, loc, prog, res, behind>>

StructStackCall(op, arg, r) ==
    /\ cfg.name = "stack"
    /\ nops < MaxStructOps
    /\ ~crashed /\ faults = {}
    /\ mem' = r.m
    /\ st' = r.s
    /\ ret' = [NoRet EXCEPT !.op = op, !.arg = arg, !.val = r.val, !.ok = r.ok,
                            !.pre = Pre]
    /\ hist' = <<ret>>
    /\ nops' = nops + 1
    /\ faults' = OobIf(r.fault)
    /\ UNCHANGED <<dq, abs, cfg, mu, pc, loc, prog, res, crashed, behind>>

\* the result of a call that returns nothing and cannot fail
Quiet(r) == [m |-> r.m, q |-> r.q, val |-> Zero, ok |-> TRUE, panic |-> FALSE,
             fault |-> FALSE]

QuietS(r) == [m |-> r.m, s |-> r.s, val |-> Zero, ok |-> TRUE, fault |-> FALSE]

StructPushBack ==
    LET r == Deque_PushBack(mem, dq, FreshVal)
    IN  StructCall("PushBack", <<FreshVal>>, [Quiet(r) EXCEPT !.fault = r.fault])

StructPushFront ==
    LET r == Deque_PushFront(mem, dq, FreshVal)
    IN  StructCall("PushFront", <<FreshVal>>, [Quiet(r) EXCEPT !.fault = r.fault])

StructPopBack ==
    LET r == Deque_PopBack(mem, dq)
    IN  StructCall("PopBack", <<>>, [Quiet(r) EXCEPT !.val = r.val, !.ok = r.ok,
                                                     !.panic = r.fault])

StructPopFront ==
    LET r == Deque_PopFront(mem, dq)
    IN  StructCall("PopFront", <<>>, [Quiet(r) EXCEPT !.val = r.val, !.ok = r.ok,
                                                      !.panic = r.fault])

StructCopy == StructCall("Copy", <<>>, Quiet(Deque_Copy(mem, dq)))

StructShrinkToFit == StructCall("ShrinkToFit", <<>>, Quiet(Deque_ShrinkToFit(mem, dq)))

StructReverse == StructCall("Reverse", <<>>, Quiet(Deque_Reverse(mem, dq)))

StructRotate(n) ==
    LET r == Deque_Rotate(mem, dq, n)
    IN  StructCall("Rotate", <<n>>, [Quiet(r) EXCEPT !.panic = r.panic])

StructPush ==
    LET r == Stack_Push(mem, st, FreshVal)
    IN  StructStackCall("Push", <<FreshVal>>, [QuietS(r) EXCEPT !.fault = r.fault])

StructPop ==
    LET r == Stack_Pop(mem, st)
    IN  StructStackCall("Pop", <<>>, [QuietS(r) EXCEPT !.val = r.val, !.ok = r.ok,
                                                       !.fault = r.fault])

StructStackCopy == StructStackCall("Copy", <<>>, QuietS(Stack_Copy(mem, st)))

StructTrimToSize == StructStackCall("TrimToSize", <<>>, QuietS(Stack_TrimToSize(mem, st)))

StructStackReverse == StructStackCall("Reverse", <<>>, QuietS(Stack_Reverse(mem, st)))

StructStackRotate(n) == StructStackCall("Rotate", <<n>>, QuietS(Stack_Rotate(mem, st, n)))

StructResize(c) == StructStackCall("Resize", <<c>>, QuietS(Stack_Resize(mem, st, c)))

NextStruct ==
    \/ StructPushBack
    \/ StructPushFront
    \/ StructPopBack
    \/ StructPopFront
    \/ StructCopy
    \/ StructShrinkToFit
    \/ StructReverse
    \/ \E n \in RotArgs : StructRotate(n)
    \/ StructPush
    \/ StructPop
    \/ StructStackCopy
    \/ StructTrimToSize
    \/ StructStackReverse
    \/ \E n \in RotArgs : StructStackRotate(n)
    \/ \E c \in 0..MaxResize : StructResize(c)

SpecStruct == InitStruct /\ [][NextStruct]_vars

\* C14: after ShrinkToFit the capacity of a Deque that was empty is its
\* initial capacity, that of a non-empty one is the larger of its count and
\* its initial capacity; Len and the elements front to back are as before.
C14_ShrinkToFit ==
    cfg.name = "deque" /\ ret.op = "ShrinkToFit" =>
        LET count == Deque_Len(ret.pre.dq)
        IN  /\ count = 0 => Deque_Capacity(mem, dq) = ret.pre.dq.initCap
            /\ count > 0 => Deque_Capacity(mem, dq) = Max(count, ret.pre.dq.initCap)
            /\ Deque_Len(dq) = count
            /\ Deque_Elems(mem, dq) = Deque_Elems(ret.pre.mem, ret.pre.dq)

\* C29: in every state that single-threaded Deque calls reach, the Deque
\* returned by Copy included, front and back are slot positions of the
\* current backing array: 0 <= front < capacity and 0 <= back < capacity.
C29_BoundariesInRange ==
    cfg.name = "deque" =>
        /\ 0 <= dq.front /\ dq.front < Deque_Capacity(mem, dq)
        /\ 0 <= dq.back /\ dq.back < Deque_Capacity(mem, dq)

\* C15: after TrimToSize the capacity of a Stack that was empty is its
\* initial capacity, that of a non-empty one is the larger of its count and
\* its initial capacity and no more than before; Length and the elements
\* top to bottom are as before.
C15_TrimToSize ==
    cfg.name = "stack" /\ ret.op = "TrimToSize" =>
        LET count == Stack_Length(ret.pre.st)
        IN  /\ count = 0 => Stack_Capacity(mem, st) = ret.pre.st.initCap
            /\ count > 0 =>
                  /\ Stack_Capacity(mem, st) = Max(count, ret.pre.st.initCap)
                  /\ Stack_Capacity(mem, st) <= Stack_Capacity(ret.pre.mem, ret.pre.st)
            /\ Stack_Length(st) = count
            /\ Stack_Elems(mem, st) = Stack_Elems(ret.pre.mem, ret.pre.st)

\* the elements of seq shifted right by n places, cyclically
Shifted(seq, n) ==
    [k \in 1..Len(seq) |-> seq[((k - 1 - n) % Len(seq)) + 1]]

\* C16: Deque.Rotate(n) returns normally and moves the element at logical
\* index i to index (i + n) mod count, whether or not the live window wraps;
\* Len and the capacity are as before.
C16_RotateRight ==
    cfg.name = "deque" /\ ret.op = "Rotate" =>
        LET before == Deque_Elems(ret.pre.mem, ret.pre.dq)
        IN  /\ ~crashed
            /\ Deque_Len(dq) = Len(before)
            /\ Deque_Capacity(mem, dq) = Deque_Capacity(ret.pre.mem, ret.pre.dq)
            /\ Deque_Elems(mem, dq) =
                  IF before = <<>> THEN before ELSE Shifted(before, ret.arg[1])

\* C17: rotation acts as a group on the order of a Deque: every Rotate
\* returns normally; Rotate(n) right after Rotate(-n) gives back the order
\* from before the pair; Rotate(count) changes nothing; Rotate(n) gives the
\* order Rotate(n mod count) gives.
C17_RotationGroup ==
    cfg.name = "deque" /\ ret.op = "Rotate" =>
        LET n      == ret.arg[1]
            before == Deque_Elems(ret.pre.mem, ret.pre.dq)
            count  == Len(before)
            modn   == Deque_Rotate(ret.pre.mem, ret.pre.dq, n % count)
        IN  /\ ~crashed
            /\ hist[1].op = "Rotate" /\ hist[1].arg = <<0 - n>> =>
                  Deque_Elems(mem, dq) = Deque_Elems(hist[1].pre.mem, hist[1].pre.dq)
            /\ n = count => Deque_Elems(mem, dq) = before
            /\ count > 0 => Deque_Elems(mem, dq) = Deque_Elems(modn.m, modn.q)

\* the Stack bottom to top
BottomUp(m, s) == [k \in 1..Max(s.top, 0) |-> Stack_At(m, s, s.top - k).val]

\* C18: Stack.Rotate(n) on more than one element moves the element at
\* position p from the bottom to position (p + n) mod count and keeps Length
\* and capacity; Rotate(count) changes nothing; Rotate(n) right after
\* Rotate(-n) gives back the order from before the pair.
C18_StackRotate ==
    cfg.name = "stack" /\ ret.op = "Rotate" =>
        LET n      == ret.arg[1]
            before == BottomUp(ret.pre.mem, ret.pre.st)
            count  == Len(before)
        IN  /\ Stack_Length(st) = count
            /\ Stack_Capacity(mem, st) = Stack_Capacity(ret.pre.mem, ret.pre.st)
            /\ BottomUp(mem, st) = IF count > 1 THEN Shifted(before, n) ELSE before
            /\ n = count => Stack_Elems(mem, st) = Stack_Elems(ret.pre.mem, ret.pre.st)
            /\ hist[1].op = "Rotate" /\ hist[1].arg = <<0 - n>> =>
                  Stack_Elems(mem, st) = Stack_Elems(hist[1].pre.mem, hist[1].pre.st)

\* the scripted run: 0..4 pushed (here BackVal(1)..BackVal(5)), Rotate(2),
\* then Rotate(-3), which leaves At(0..4) = 0,4,3,2,1
C18_Witness ==
    /\ cfg.name = "stack"
    /\ ret.op = "Rotate" /\ ret.arg = <<0 - 3>>
    /\ hist[1].op = "Rotate" /\ hist[1].arg = <<2>>
    /\ Stack_Elems(hist[1].pre.mem, hist[1].pre.st) =
          <<BackVal(5), BackVal(4), BackVal(3), BackVal(2), BackVal(1)>>
    /\ Stack_Elems(ret.pre.mem, ret.pre.st) =
          <<BackVal(3), BackVal(2), BackVal(1), BackVal(5), BackVal(4)>>
    /\ Stack_Elems(mem, st) =
          <<BackVal(1), BackVal(5), BackVal(4), BackVal(3), BackVal(2)>>

\* seq back to front
Reversed(seq) == [k \in 1..Len(seq) |-> seq[Len(seq) + 1 - k]]

\* C19: Reverse leaves at index i the element that was at index
\* count - 1 - i, on a Deque whether or not its live window wraps and on a
\* Stack; count and capacity are as before.
C19_ReverseExact ==
    /\ cfg.name = "deque" /\ ret.op = "Reverse" =>
          /\ Deque_Elems(mem, dq) = Reversed(Deque_Elems(ret.pre.mem, ret.pre.dq))
          /\ Deque_Len(dq) = Deque_Len(ret.pre.dq)
          /\ Deque_Capacity(mem, dq) = Deque_Capacity(ret.pre.mem, ret.pre.dq)
    /\ cfg.name = "stack" /\ ret.op = "Reverse" =>
          /\ Stack_Elems(mem, st) = Reversed(Stack_Elems(ret.pre.mem, ret.pre.st))
          /\ Stack_Length(st) = Stack_Length(ret.pre.st)
          /\ Stack_Capacity(mem, st) = Stack_Capacity(ret.pre.mem, ret.pre.st)

\* a Deque of three elements whose window wraps (front behind back in the
\* array) has been reversed
C19_Witness ==
    /\ cfg.name = "deque"
    /\ ret.op = "Reverse"
    /\ ret.pre.dq.length = 3
    /\ ret.pre.dq.front + ret.pre.dq.length > Cap(ret.pre.mem, ret.pre.dq.data)
    /\ Deque_Elems(ret.pre.mem, ret.pre.dq) = <<FrontVal(1), BackVal(1), BackVal(2)>>
    /\ Deque_Elems(mem, dq) = <<BackVal(2), BackVal(1), FrontVal(1)>>

\* C20: two Reverse calls in a row give back the order from before the
\* first, on a Deque and on a Stack.
C20_ReverseTwice ==
    ret.op = "Reverse" /\ hist[1].op = "Reverse" =>
        /\ cfg.name = "deque" =>
              Deque_Elems(mem, dq) = Deque_Elems(hist[1].pre.mem, hist[1].pre.dq)
        /\ cfg.name = "stack" =>
              Stack_Elems(mem, st) = Stack_Elems(hist[1].pre.mem, hist[1].pre.st)

\* a Stack of four distinct elements has been reversed twice
C20_Witness ==
    /\ cfg.name = "stack"
    /\ ret.op = "Reverse" /\ hist[1].op = "Reverse"
    /\ Stack_Elems(hist[1].pre.mem, hist[1].pre.st) =
          <<BackVal(4), BackVal(3), BackVal(2), BackVal(1)>>
    /\ Stack_Elems(ret.pre.mem, ret.pre.st) =
          <<BackVal(1), BackVal(2), BackVal(3), BackVal(4)>>
    /\ Stack_Elems(mem, st) = <<BackVal(4), BackVal(3), BackVal(2), BackVal(1)>>

(***************************************************************************)
(* SpecCopy: a container c1 (dq or st) and the copy c2 its Copy returned,   *)
(* held by the caller in loc[1]; then pushes, pops and Set calls on either, *)
(* one call at a time.  ret.arg[1] tells which container the last call was  *)
(* made on and hist holds the struct of the copy before that call.  A       *)
(* PushBack that writes behind its backing array may hit another array.    *)
(***************************************************************************)

\* most PushBack (Deque) or Push (Stack) calls before the copy
MaxCopyFill == 8

\* calls after the copy
MaxCopyOps == 3

InitCopy ==
    /\ NoThreads
    /\ \/ /\ cfg = [name |-> "deque", n |-> 0]
          /\ \E nf \in 0..1 : \E nb \in 0..MaxCopyFill - nf :
                /\ mem = FilledDeque(nf, nb).m
                /\ dq = FilledDeque(nf, nb).q
          /\ st = NoStack
       \/ /\ cfg = [name |-> "stack", n |-> 0]
          /\ \E np \in 0..MaxCopyFill :
                /\ mem = FilledStack(np).m
                /\ st = FilledStack(np).s
          /\ dq = NoDeque
    /\ abs = <<>>
    /\ hist = <<>>
    /\ ret = NoRet
    /\ nops = 0

CopyCopy ==
    /\ loc = <<>>
    /\ IF cfg.name = "deque"
       THEN LET r == Deque_Copy(mem, dq) IN mem' = r.m /\ loc' = <<r.q>>
       ELSE LET r == Stack_Copy(mem, st) IN mem' = r.m /\ loc' = <<r.s>>
    /\ ret' = [NoRet EXCEPT !.op = "Copy", !.pre = Pre]
    /\ UNCHANGED <<dq, st, abs, hist, nops, cfg, mu, pc, prog, res, crashed, faults, behind>>

\* a call on c1 (who = 1) or c2 (who = 2) that leaves heap m and struct q
CopyCall(who, op, m, q, fault) ==
    /\ loc # <<>>
    /\ nops < MaxCopyOps
    /\ faults = {}
    /\ mem' = m
    /\ IF who = 1
       THEN /\ IF cfg.name = "deque" THEN dq' = q /\ st' = st ELSE st' = q /\ dq' = dq
            /\ loc' = loc
       ELSE loc' = <<q>> /\ UNCHANGED <<dq, st>>
    /\ ret' = [NoRet EXCEPT !.op = op, !.arg = <<who>>, !.pre = Pre]
    /\ hist' = loc
    /\ nops' = nops + 1
    /\ faults' = OobIf(fault)
    /\ UNCHANGED <<abs, cfg, mu, pc, prog, res, crashed, behind>>

\* the container a call on who is made on
Held(who) == IF who = 2 THEN loc[1] ELSE IF cfg.name = "deque" THEN dq ELSE st

CopyPushBack(who) ==
    /\ cfg.name = "deque" /\ loc # <<>>
    /\ LET q == Held(who)
           r == Deque_PushBack(mem, q, FreshVal)
       IN  \E m \in (IF r.fault THEN StrayWrites(r.m, q.data, q.back, FreshVal)
                     ELSE {r.m}) :
              CopyCall(who, "PushBack", m, r.q, r.fault)

CopyPushFront(who) ==
    /\ cfg.name = "deque" /\ loc # <<>>
    /\ LET r == Deque_PushFront(mem, Held(who), FreshVal)
       IN  CopyCall(who, "PushFront", r.m, r.q, r.fault)

CopyPopBack(who) ==
    /\ cfg.name = "deque" /\ loc # <<>>
    /\ LET r == Deque_PopBack(mem, Held(who))
       IN  CopyCall(who, "PopBack", r.m, r.q, r.fault)

CopyPopFront(who) ==
    /\ cfg.name = "deque" /\ loc # <<>>
    /\ LET r == Deque_PopFront(mem, Held(who))
       IN  CopyCall(who, "PopFront", r.m, r.q, r.fault)

CopySet(who, i) ==
    /\ cfg.name = "deque" /\ loc # <<>>
    /\ LET r == Deque_Set(mem, Held(who), i, FreshVal)
       IN  CopyCall(who, "Set", r.m, r.q, FALSE)

CopyPush(who) ==
    /\ cfg.name = "stack" /\ loc # <<>>
    /\ LET r == Stack_Push(mem, Held(who), FreshVal)
       IN  CopyCall(who, "Push", r.m, r.s, r.fault)

CopyPop(who) ==
    /\ cfg.name = "stack" /\ loc # <<>>
    /\ LET r == Stack_Pop(mem, Held(who))
       IN  CopyCall(who, "Pop", r.m, r.s, r.fault)

CopyStackSet(who, i) ==
    /\ cfg.name = "stack" /\ loc # <<>>
    /\ LET r == Stack_Set(mem, Held(who), i, FreshVal)
       IN  CopyCall(who, "Set", r.m, r.s, FALSE)

SetArgs == {0, 1, 0 - 1}

NextCopy ==
    \/ CopyCopy
    \/ \E who \in {1, 2} : CopyPushBack(who)
    \/ \E who \in {1, 2} : CopyPushFront(who)
    \/ \E who \in {1, 2} : CopyPopBack(who)
    \/ \E who \in {1, 2} : CopyPopFront(who)
    \/ \E who \in {1, 2} : \E i \in SetArgs : CopySet(who, i)
    \/ \E who \in {1, 2} : CopyPush(who)
    \/ \E who \in {1, 2} : CopyPop(who)
    \/ \E who \in {1, 2} : \E i \in SetArgs : CopyStackSet(who, i)

SpecCopy == InitCopy /\ [][NextCopy]_vars

\* the elements of a container, Deque or Stack by the scenario
ElemsOf(m, c) == IF cfg.name = "deque" THEN Deque_Elems(m, c) ELSE Stack_Elems(m, c)

\* C21: right after Copy the copy has the length and the elements, in
\* order, of the source; a later call on the source changes neither the
\* copy's length nor what is read through the copy, and a later call on the
\* copy changes neither the source's length nor what is read through the
\* source.
C21_CopyIndependence ==
    /\ ret.op = "Copy" =>
          /\ ElemsOf(mem, loc[1]) = ElemsOf(ret.pre.mem, Held(1))
          /\ Len(ElemsOf(mem, loc[1])) = Len(ElemsOf(mem, Held(1)))
          /\ ElemsOf(mem, Held(1)) = ElemsOf(ret.pre.mem, Held(1))
    /\ ret.arg = <<1>> => ElemsOf(mem, loc[1]) = ElemsOf(ret.pre.mem, hist[1])
    /\ ret.arg = <<2>> =>
          ElemsOf(mem, Held(1)) =
             ElemsOf(ret.pre.mem, IF cfg.name = "deque" THEN ret.pre.dq ELSE ret.pre.st)

\* C30: a Deque that Copy returned for a non-empty source behaves like the
\* sequence it holds under later pushes and pops: after a PushBack of v on
\* it Back and At(-1) return v, the elements before v are those it held, and
\* the call wrote no slot at an index at or past the capacity.
C30_CopyBehavesLikeSequence ==
    cfg.name = "deque" /\ ret.op = "PushBack" /\ ret.arg = <<2>> =>
        LET v == FreshVal - 1
        IN  /\ faults = {}
            /\ Deque_Back(mem, loc[1]) = [val |-> v, ok |-> TRUE, fault |-> FALSE]
            /\ Deque_At(mem, loc[1], 0 - 1).val = v
            /\ Deque_Elems(mem, loc[1]) =
                  Append(Deque_Elems(ret.pre.mem, hist[1]), v)

\* C22: the backing array of the Deque that Copy returns has at least the
\* capacity of the source at the time of the copy, and holds the live
\* elements of the source in slots 0, 1, ... in order.
C22_CopyCapacity ==
    cfg.name = "deque" /\ ret.op = "Copy" =>
        LET c2     == loc[1]
            source == Deque_Elems(ret.pre.mem, ret.pre.dq)
        IN  /\ Deque_Capacity(mem, c2) >= Deque_Capacity(ret.pre.mem, ret.pre.dq)
            /\ c2.front = 0
            /\ Deque_Len(c2) = Len(source)
            /\ \A i \in 1..Len(source) : Load(mem, c2.data, i - 1) = source[i]

(***************************************************************************)
(* SpecClear: Clear on a Deque or a Stack in any shape (as built by pushes  *)
(* and pops, as returned by Copy, as left by ShrinkToFit or TrimToSize),    *)
(* then pushes.  ret stays the Clear call with the state before it, abs is  *)
(* what the pushes after it make of an empty sequence.                      *)
(***************************************************************************)

\* most PushBack (Deque) or Push (Stack) calls before the Clear
MaxClearFill == 9

\* pushes after the Clear
MaxClearPushes == 9

Shapes == {"built", "copied", "shrunk"}

\* the Deque w as built, the copy of it, or w after ShrinkToFit
ShapedDeque(w, shape) ==
    IF shape = "copied" THEN Deque_Copy(w.m, w.q)
    ELSE IF shape = "shrunk" THEN Deque_ShrinkToFit(w.m, w.q)
    ELSE [m |-> w.m, q |-> w.q]

ShapedStack(w, shape) ==
    IF shape = "copied" THEN Stack_Copy(w.m, w.s)
    ELSE IF shape = "shrunk" THEN Stack_TrimToSize(w.m, w.s)
    ELSE [m |-> w.m, s |-> w.s]

InitClear ==
    /\ NoThreads
    /\ \/ /\ cfg = [name |-> "deque", n |-> 0]
          /\ \E nf \in 0..1 : \E nb \in 0..MaxClearFill : \E pf \in 0..1 :
             \E shape \in Shapes :
                LET w == ShapedDeque(PopFrontN(FilledDeque(nf, nb), pf), shape)
                IN  mem = w.m /\ dq = w.q
          /\ st = NoStack
       \/ /\ cfg = [name |-> "stack", n |-> 0]
          /\ \E np \in 0..MaxClearFill : \E shape \in Shapes :
                LET w == ShapedStack(FilledStack(np), shape)
                IN  mem = w.m /\ st = w.s
          /\ dq = NoDeque
    /\ abs = <<>>
    /\ hist = <<>>
    /\ ret = NoRet
    /\ nops = 0

ClearClear ==
    /\ cfg.name = "deque"
    /\ ret.op = "none"
    /\ LET r == Deque_Clear(mem, dq)
       IN  mem' = r.m /\ dq' = r.q
    /\ ret' = [NoRet EXCEPT !.op = "Clear", !.pre = Pre]
    /\ UNCHANGED <<st, abs, hist, nops, cfg, concVars>>

ClearStackClear ==
    /\ cfg.name = "stack"
    /\ ret.op = "none"
    /\ LET r == Stack_Clear(mem, st)
       IN  mem' = r.m /\ st' = r.s
    /\ ret' = [NoRet EXCEPT !.op = "Clear", !.pre = Pre]
    /\ UNCHANGED <<dq, abs, hist, nops, cfg, concVars>>

ClearPushBack ==
    /\ cfg.name = "deque"
    /\ ret.op = "Clear" /\ nops < MaxClearPushes
    /\ LET r == Deque_PushBack(mem, dq, FreshVal)
       IN  mem' = r.m /\ dq' = r.q /\ faults' = faults \cup OobIf(r.fault)
    /\ abs' = Append(abs, FreshVal)
    /\ nops' = nops + 1
    /\ UNCHANGED <<st, hist, ret, cfg, mu, pc, loc, prog, res, crashed, behind>>

ClearPushFront ==
    /\ cfg.name = "deque"
    /\ ret.op = "Clear" /\ nops < MaxClearPushes
    /\ LET r == Deque_PushFront(mem, dq, FreshVal)
       IN  mem' = r.m /\ dq' = r.q /\ faults' = faults \cup OobIf(r.fault)
    /\ abs' = <<FreshVal>> \o abs
    /\ nops' = nops + 1
    /\ UNCHANGED <<st, hist, ret, cfg, mu, pc, loc, prog, res, crashed, behind>>

ClearPush ==
    /\ cfg.name = "stack"
    /\ ret.op = "Clear" /\ nops < MaxClearPushes
    /\ LET r == Stack_Push(mem, st, FreshVal)
       IN  mem' = r.m /\ st' = r.s /\ faults' = faults \cup OobIf(r.fault)
    /\ abs' = <<FreshVal>> \o abs
    /\ nops' = nops + 1
    /\ UNCHANGED <<dq, hist, ret, cfg, mu, pc, loc, prog, res, crashed, behind>>

NextClear ==
    ClearClear \/ ClearStackClear \/ ClearPushBack \/ ClearPushFront \/ ClearPush

SpecClear == InitClear /\ [][NextClear]_vars

\* C23: right after Clear the container is empty with the capacity it had
\* before; after k pushes more its length is k, no push has written
\* outside the backing array, and At returns the pushed elements in order
\* (abs is the Deque front to back, the Stack top to bottom).
C23_ClearKeepsCapacity ==
    ret.op = "Clear" =>
        /\ cfg.name = "deque" =>
              /\ nops = 0 =>
                    /\ Deque_Len(dq) = 0 /\ Deque_Empty(dq)
                    /\ Deque_Capacity(mem, dq) = Deque_Capacity(ret.pre.mem, ret.pre.dq)
              /\ Deque_Len(dq) = nops
              /\ Deque_Elems(mem, dq) = abs
        /\ cfg.name = "stack" =>
              /\ nops = 0 =>
                    /\ Stack_Length(st) = 0 /\ Stack_Empty(st)
                    /\ Stack_Capacity(mem, st) = Stack_Capacity(ret.pre.mem, ret.pre.st)
              /\ Stack_Length(st) = nops
              /\ Stack_Elems(mem, st) = abs
        /\ faults = {}

\* a Deque whose window wrapped was cleared and has since taken pushes at
\* both ends, more than its capacity at the Clear
C23_Witness ==
    /\ cfg.name = "deque"
    /\ ret.op = "Clear"
    /\ ret.pre.dq.length > 1
    /\ ret.pre.dq.front + ret.pre.dq.length > Cap(ret.pre.mem, ret.pre.dq.data)
    /\ nops > Deque_Capacity(ret.pre.mem, ret.pre.dq)
    /\ Deque_Capacity(mem, dq) = 2 * Deque_Capacity(ret.pre.mem, ret.pre.dq)
    /\ abs[1] > abs[2]
    /\ abs[Len(abs)] > abs[Len(abs) - 1]
    /\ Deque_Elems(mem, dq) = abs

(***************************************************************************)
(* Deque.Clear, step by step (all of it under q.mu).                        *)
(***************************************************************************)

Clear_Lock(t) ==
    /\ AtPc(t, "Clear_Lock")
    /\ mu = 0
    /\ mu' = t
    /\ Goto(t, "Clear_StoreFront")
    /\ UNCHANGED <<mem, dq, st, loc, prog, res, crashed, faults, behind, seqVars, cfg>>

Clear_StoreFront(t) ==
    /\ AtPc(t, "Clear_StoreFront")
    /\ dq' = [dq EXCEPT !.front = 0]
    /\ Goto(t, "Clear_StoreBack")
    /\ UNCHANGED <<mem, st, mu, loc, prog, res, crashed, faults, behind, seqVars, cfg>>

Clear_StoreBack(t) ==
    /\ AtPc(t, "Clear_StoreBack")
    /\ dq' = [dq EXCEPT !.back = 0]
    /\ Goto(t, "Clear_StoreLength")
    /\ UNCHANGED <<mem, st, mu, loc, prog, res, crashed, faults, behind, seqVars, cfg>>

Clear_StoreLength(t) ==
    /\ AtPc(t, "Clear_StoreLength")
    /\ dq' = [dq EXCEPT !.length = 0]
    /\ Goto(t, "Clear_Unlock")
    /\ UNCHANGED <<mem, st, mu, loc, prog, res, crashed, faults, behind, seqVars, cfg>>

Clear_Unlock(t) ==
    /\ AtPc(t, "Clear_Unlock")
    /\ mu' = 0
    /\ ReturnVoid(t)
    /\ UNCHANGED <<mem, dq, st, crashed, faults, behind, seqVars, cfg>>

Clear(t) ==
    \/ Clear_Lock(t) \/ Clear_StoreFront(t) \/ Clear_StoreBack(t)
    \/ Clear_StoreLength(t) \/ Clear_Unlock(t)

(***************************************************************************)
(* SpecClearConc: one goroutine calls Clear while two others call          *)
(* PushBack, on a Deque a single caller has put ClearPrefill elements into  *)
(* before.                                                                  *)
(***************************************************************************)

\* elements in the Deque before the run
ClearPrefill == 7

\* PushBack calls of the first pusher (the second makes one)
ClearPushes == 2

InitClearConc ==
    /\ mem = FilledDeque(0, ClearPrefill).m
    /\ dq = FilledDeque(0, ClearPrefill).q
    /\ st = NoStack
    /\ Start(<<PushBackCalls(1, ClearPushes), PushBackCalls(2, 1),
               <<[op |-> "Clear", val |-> Zero]>> >>)
    /\ NoSeq
    /\ cfg = [name |-> "clearconc", n |-> 0]

NextClearConc ==
    \E t \in 1..3 : PushBack(t) \/ Resize(t) \/ Clear(t)

SpecClearConc == InitClearConc /\ [][NextClearConc]_vars

\* the values of seq that goroutine t pushed, in order
PushedBy(seq, t) == SelectSeq(seq, LAMBDA v : v \in {PushVal(t, i) : i \in 1..ClearPushes})

\* the last k PushBack values of goroutine t with n calls
LastPushes(t, n, k) == [i \in 1..k |-> PushVal(t, n - k + i)]

\* C24: when Clear and the PushBack calls have all returned, the Deque is
\* what some serial order of the calls leaves: for some number k1 and k2 of
\* pushes of each pusher ordered after Clear, Len() is k1 + k2, the
\* elements front to back are exactly those pushes with each pusher's in
\* its order, and the length is the circular distance from front to back.
C24_ClearAtomic ==
    cfg.name = "clearconc" /\ AllDone =>
        LET elems    == Deque_Elems(mem, dq)
            capacity == Deque_Capacity(mem, dq)
        IN  /\ \E k1 \in 0..ClearPushes : \E k2 \in 0..1 :
                  /\ Deque_Len(dq) = k1 + k2
                  /\ PushedBy(elems, 1) = LastPushes(1, ClearPushes, k1)
                  /\ PushedBy(elems, 2) = LastPushes(2, 1, k2)
            /\ (dq.back - dq.front) % capacity = Deque_Len(dq) % capacity

(***************************************************************************)
(* SpecInit: the constructors with every requested capacity, some pushes,   *)
(* then Init calls on the Deque, the Queue or the Stack.  cfg.n is the      *)
(* argument list the constructor was given.                                 *)
(***************************************************************************)

\* the capacities requested of a constructor or of Init run from -1 to
\* MaxInitArg, beside the 20 of TestQueueInit
MaxInitArg == 9

\* most pushes between the constructor and the Init calls
MaxInitFill == 2

\* Init calls of a run
MaxInitCalls == 2

InitArgs == ((0 - 1)..MaxInitArg) \cup {20}

\* the argument lists of a constructor: none, or one requested capacity
CtorArgs == {<<>>} \cup {<<c>> : c \in InitArgs}

InitInit ==
    /\ NoThreads
    /\ \/ /\ \E a \in CtorArgs : \E nb \in 0..MaxInitFill :
                LET w == PushBackN(NewDeque(<<>>, a), nb)
                IN  mem = w.m /\ dq = w.q /\ cfg = [name |-> "deque", n |-> a]
          /\ st = NoStack
       \/ /\ \E nb \in 0..MaxInitFill :
                LET w == PushBackN(NewQueue(<<>>), nb)
                IN  mem = w.m /\ dq = w.q /\ cfg = [name |-> "queue", n |-> <<>>]
          /\ st = NoStack
       \/ /\ \E a \in CtorArgs : \E np \in 0..MaxInitFill :
                LET w == PushN(NewStack(<<>>, a), np)
                IN  mem = w.m /\ st = w.s /\ cfg = [name |-> "stack", n |-> a]
          /\ dq = NoDeque
    /\ abs = <<>>
    /\ hist = <<>>
    /\ ret = NoRet
    /\ nops = 0

InitCall(n, r) ==
    /\ nops < MaxInitCalls
    /\ mem' = r.m
    /\ ret' = [NoRet EXCEPT !.op = "Init", !.arg = <<n>>, !.pre = Pre]
    /\ nops' = nops + 1
    /\ UNCHANGED <<abs, hist, cfg, concVars>>

InitDeque(n) ==
    /\ cfg.name = "deque"
    /\ LET r == Deque_Init(mem, dq, n)
       IN  InitCall(n, r) /\ dq' = r.q
    /\ UNCHANGED st

InitQueue(n) ==
    /\ cfg.name = "queue"
    /\ LET r == Queue_Init(mem, dq, n)
       IN  InitCall(n, r) /\ dq' = r.q
    /\ UNCHANGED st

InitStack(n) ==
    /\ cfg.name = "stack"
    /\ LET r == Stack_Init(mem, st, n)
       IN  InitCall(n, r) /\ st' = r.s
    /\ UNCHANGED dq

NextInit ==
    \/ \E n \in InitArgs : InitDeque(n)
    \/ \E n \in InitArgs : InitQueue(n)
    \/ \E n \in InitArgs : InitStack(n)

SpecInit == InitInit /\ [][NextInit]_vars

\* the capacity a request yields: the request, but at least the default
Floored(n) == IF n > DefaultCap THEN n ELSE DefaultCap

\* C25: the stored initial capacity is never below 8; a container fresh
\* from its constructor has capacity max(8, requested), 8 when nothing was
\* requested; after Init(n) the container is empty with capacity max(8, n).
C25_CapacityFloor ==
    LET isStack  == cfg.name = "stack"
        capacity == IF isStack THEN Stack_Capacity(mem, st) ELSE Deque_Capacity(mem, dq)
        count    == IF isStack THEN Stack_Length(st) ELSE Deque_Len(dq)
        initCap  == IF isStack THEN st.initCap ELSE dq.initCap
    IN  /\ initCap >= DefaultCap
        /\ ret.op = "none" /\ count = 0 =>
              capacity = (IF cfg.n = <<>> THEN DefaultCap ELSE Floored(cfg.n[1]))
        /\ ret.op = "Init" =>
              /\ capacity = Floored(ret.arg[1])
              /\ initCap = capacity
              /\ count = 0
              /\ IF isStack THEN Stack_Empty(st) ELSE Deque_Empty(dq)

\* a Queue that held elements was given an Init that left it with capacity
\* 8 and then Init(20): it is empty with capacity 20
C25_Witness ==
    /\ cfg.name = "queue"
    /\ ret.op = "Init" /\ ret.arg = <<20>>
    /\ Deque_Capacity(mem, dq) = 20
    /\ Deque_Capacity(ret.pre.mem, ret.pre.dq) = DefaultCap
    /\ ret.pre.mem[1][1] # Zero
    /\ nops = 2

\* C26: after Stack.Resize(c), c >= 0, the capacity is exactly c; a count
\* above c has become c and the elements kept are the c oldest, bottom to
\* top as before; a count of at most c and its elements are unchanged.
C26_StackResize ==
    cfg.name = "stack" /\ ret.op = "Resize" =>
        LET c      == ret.arg[1]
            before == BottomUp(ret.pre.mem, ret.pre.st)
            count  == Len(before)
        IN  /\ Stack_Capacity(mem, st) = c
            /\ c < count =>
                  /\ Stack_Length(st) = c
                  /\ BottomUp(mem, st) = SubSeq(before, 1, c)
            /\ c >= count =>
                  /\ Stack_Length(st) = count
                  /\ BottomUp(mem, st) = before

\* a Stack of five elements was resized to three: the three oldest stay
C26_Witness ==
    /\ cfg.name = "stack"
    /\ ret.op = "Resize" /\ ret.arg = <<3>>
    /\ Stack_Length(ret.pre.st) = 5
    /\ Stack_Capacity(mem, st) = 3
    /\ Stack_Elems(mem, st) = <<BackVal(3), BackVal(2), BackVal(1)>>

\* C27: Set(i, v) with i resolving into [0, count) returns true; At(i) then
\* returns (v, true); At of every other index, the count and the capacity
\* are as before.  On the Stack index 0 is the slot pushed last (top - 1 of
\* the storage) and index count - 1 the oldest (slot 0).
C27_SetAtRoundTrip ==
    LET v == FreshVal - 1
    IN  /\ ret.op = "Set" /\ ~OutOfRange(ret.arg[1], ret.pre.dq.length) =>
              LET i     == ret.arg[1]
                  count == ret.pre.dq.length
              IN  /\ ret.ok
                  /\ Deque_At(mem, dq, i) = [val |-> v, ok |-> TRUE, fault |-> FALSE]
                  /\ \A j \in 0..(count - 1) :
                        j # Resolve(i, count) =>
                           Deque_At(mem, dq, j) = Deque_At(ret.pre.mem, ret.pre.dq, j)
                  /\ Deque_Len(dq) = count
                  /\ Deque_Capacity(mem, dq) = Deque_Capacity(ret.pre.mem, ret.pre.dq)
        /\ ret.op = "StackSet" /\ ~OutOfRange(ret.arg[1], ret.pre.st.top) =>
              LET i     == ret.arg[1]
                  count == ret.pre.st.top
              IN  /\ ret.ok
                  /\ Stack_At(mem, st, i) = [val |-> v, ok |-> TRUE, fault |-> FALSE]
                  /\ \A j \in 0..(count - 1) :
                        j # Resolve(i, count) =>
                           Stack_At(mem, st, j) = Stack_At(ret.pre.mem, ret.pre.st, j)
                  /\ Stack_Length(st) = count
                  /\ Stack_Capacity(mem, st) = Stack_Capacity(ret.pre.mem, ret.pre.st)
                  /\ Load(mem, st.data, count - 1 - Resolve(i, count)) = v
                  /\ (i = 0 => Stack_Top(mem, st).val = v)

\* Set(0, v) on a Stack of three elements has replaced the element pushed
\* last and left the two older ones
C27_Witness ==
    /\ cfg.name = "stack"
    /\ ret.op = "StackSet" /\ ret.arg = <<0>> /\ ret.ok
    /\ ret.pre.st.top = 3
    /\ Stack_Elems(ret.pre.mem, ret.pre.st) = <<BackVal(3), BackVal(2), BackVal(1)>>
    /\ Stack_Elems(mem, st) = <<FreshVal - 1, BackVal(2), BackVal(1)>>

(***************************************************************************)
(* SpecPeek: Front and Back on a Deque, Top on a Stack, between pushes and  *)
(* pops, on containers of any shape (built, copied, shrunk).  For the       *)
(* Stack abs is what the pushes and pops make of it, top to bottom.         *)
(***************************************************************************)

\* most PushBack (Deque) or Push (Stack) calls before the run
MaxPeekFill == 9

\* calls of a run
MaxPeekOps == 3

InitPeek ==
    /\ NoThreads
    /\ \/ /\ cfg = [name |-> "deque", n |-> 0]
          /\ \E nf \in 0..1 : \E nb \in 0..MaxPeekFill : \E pf \in 0..1 :
             \E shape \in Shapes :
                LET w == ShapedDeque(PopFrontN(FilledDeque(nf, nb), pf), shape)
                IN  mem = w.m /\ dq = w.q
          /\ st = NoStack
          /\ abs = <<>>
       \/ /\ cfg = [name |-> "stack", n |-> 0]
          /\ \E np \in 0..MaxPeekFill : \E shape \in Shapes :
                LET w == ShapedStack(FilledStack(np), shape)
                IN  /\ mem = w.m /\ st = w.s
                    /\ abs = [k \in 1..np |-> BackVal(np + 1 - k)]
          /\ dq = NoDeque
    /\ hist = <<>>
    /\ ret = NoRet
    /\ nops = 0

PeekCall(op, r) ==
    /\ nops < MaxPeekOps
    /\ mem' = r.m
    /\ ret' = [NoRet EXCEPT !.op = op, !.val = r.val, !.ok = r.ok, !.pre = Pre]
    /\ nops' = nops + 1
    /\ UNCHANGED <<hist, cfg, concVars>>

PeekDeque(op, r) ==
    /\ cfg.name = "deque"
    /\ PeekCall(op, r)
    /\ dq' = r.q
    /\ UNCHANGED <<st, abs>>

PeekPushBack == PeekDeque("PushBack", Void(Deque_PushBack(mem, dq, FreshVal)))

PeekPushFront == PeekDeque("PushFront", Void(Deque_PushFront(mem, dq, FreshVal)))

PeekPopBack == PeekDeque("PopBack", Deque_PopBack(mem, dq))

PeekPopFront == PeekDeque("PopFront", Deque_PopFront(mem, dq))

PeekFront == PeekDeque("Front", ReadOnly(Deque_Front(mem, dq)))

PeekBack == PeekDeque("Back", ReadOnly(Deque_Back(mem, dq)))

PeekPush ==
    /\ cfg.name = "stack"
    /\ PeekCall("Push", VoidS(Stack_Push(mem, st, FreshVal)))
    /\ st' = Stack_Push(mem, st, FreshVal).s
    /\ abs' = <<FreshVal>> \o abs
    /\ UNCHANGED dq

PeekPop ==
    /\ cfg.name = "stack"
    /\ PeekCall("Pop", Stack_Pop(mem, st))
    /\ st' = Stack_Pop(mem, st).s
    /\ abs' = IF abs = <<>> THEN abs ELSE Tail(abs)
    /\ UNCHANGED dq

PeekTop ==
    /\ cfg.name = "stack"
    /\ PeekCall("Top", ReadOnlyS(Stack_Top(mem, st)))
    /\ UNCHANGED <<dq, st, abs>>

NextPeek ==
    \/ PeekPushBack \/ PeekPushFront \/ PeekPopBack \/ PeekPopFront
    \/ PeekFront \/ PeekBack
    \/ PeekPush \/ PeekPop \/ PeekTop

SpecPeek == InitPeek /\ [][NextPeek]_vars

\* C28: on a non-empty container Front returns what At(0) returns, Back
\* what At(-1) returns and Top the element pushed last among those not yet
\* popped, each with ok = true; the call changes neither the struct (count,
\* indices) nor the storage.
C28_PeekReadsEnd ==
    /\ cfg.name = "deque" /\ ret.op = "Front" /\ ret.pre.dq.length > 0 =>
          /\ ret.ok /\ ret.val = Deque_At(ret.pre.mem, ret.pre.dq, 0).val
          /\ dq = ret.pre.dq /\ mem = ret.pre.mem
    /\ cfg.name = "deque" /\ ret.op = "Back" /\ ret.pre.dq.length > 0 =>
          /\ ret.ok /\ ret.val = Deque_At(ret.pre.mem, ret.pre.dq, 0 - 1).val
          /\ dq = ret.pre.dq /\ mem = ret.pre.mem
    /\ cfg.name = "stack" /\ ret.op = "Top" /\ ret.pre.st.top > 0 =>
          /\ ret.ok /\ ret.val = abs[1]
          /\ st = ret.pre.st /\ mem = ret.pre.mem

\* Back on a Deque of three elements whose window wraps, after a PushBack
C28_Witness ==
    /\ cfg.name = "deque"
    /\ ret.op = "Back" /\ ret.ok
    /\ dq.length = 3
    /\ dq.front + dq.length > Cap(mem, dq.data)
    /\ nops = 2
    /\ ret.val = FreshVal - 2

(***************************************************************************)
(* SpecPopFront: Poppers goroutines, each calling PopFront once, on a       *)
(* Deque a single caller has filled with 0..MaxPopFill elements; nobody     *)
(* pushes.                                                                  *)
(***************************************************************************)

\* goroutines that pop
Poppers == 3

\* most elements in the Deque before the goroutines start
MaxPopFill == 3

InitPopFront ==
    /\ \E k \in 0..MaxPopFill :
          /\ mem = FilledDeque(0, k).m
          /\ dq = FilledDeque(0, k).q
          /\ cfg = [name |-> "popfront", n |-> k]
    /\ st = NoStack
    /\ Start([t \in 1..Poppers |-> <<[op |-> "PopFront", val |-> Zero]>>])
    /\ NoSeq

NextPopFront == \E t \in 1..Poppers : PopFront(t)

SpecPopFront == InitPopFront /\ [][NextPopFront]_vars

\* the values the PopFront calls returned with ok = true
PoppedOk == {res[t][1].val : t \in {u \in 1..Poppers : res[u] # <<>> /\ res[u][1].ok}}

\* how many PopFront calls returned ok = true
Successes == Cardinality({t \in 1..Poppers : res[t] # <<>> /\ res[t][1].ok})

\* C31: once concurrent PopFront calls on a Deque of k elements have all
\* returned, min(k, calls) of them returned ok = true, the values returned
\* are distinct and are the first elements in front order, the length is k
\* minus the number of successes and is the circular distance from front
\* to back.
C31_ConcurrentPopFront ==
    cfg.name = "popfront" /\ AllDone =>
        /\ Successes = Min(cfg.n, Poppers)
        /\ PoppedOk = {BackVal(i) : i \in 1..Successes}
        /\ dq.length = cfg.n - Successes
        /\ dq.length = (dq.back - dq.front) % Deque_Capacity(mem, dq)

(***************************************************************************)
(* SpecGrowOnce: two goroutines call PushBack once each on a Deque a        *)
(* single caller has filled exactly to its capacity.                        *)
(***************************************************************************)

\* most PushFront calls among those that filled the Deque
MaxFullFront == 2

InitGrowOnce ==
    /\ \E nf \in 0..MaxFullFront :
          /\ mem = FilledDeque(nf, DefaultCap - nf).m
          /\ dq = FilledDeque(nf, DefaultCap - nf).q
          /\ cfg = [name |-> "growonce", n |-> nf]
    /\ st = NoStack
    /\ Start(<<PushBackCalls(1, 1), PushBackCalls(2, 1)>>)
    /\ NoSeq

NextGrowOnce == \E t \in 1..2 : PushBack(t) \/ Resize(t)

SpecGrowOnce == InitGrowOnce /\ [][NextGrowOnce]_vars

\* C33: once the two PushBack calls on the full Deque of capacity C have
\* returned, the capacity is 2*C, Len() is C + 2 and the Deque holds the C
\* elements it held followed by the two pushed values.
C33_GrowOnce ==
    cfg.name = "growonce" /\ AllDone =>
        /\ Deque_Capacity(mem, dq) = 2 * DefaultCap
        /\ Deque_Len(dq) = DefaultCap + 2
        /\ \E a, b \in {PushVal(1, 1), PushVal(2, 1)} :
              /\ a # b
              /\ Deque_Elems(mem, dq) =
                    FilledAbs(cfg.n, DefaultCap - cfg.n) \o <<a, b>>

(***************************************************************************)
(* Deque.Copy, step by step (all of it under q.mu).  The new Deque is       *)
(* local to the call until it returns: its backing array is in the heap at  *)
(* loc.newHeader, its back and length are loc.rBack and loc.rLength, its    *)
(* initial capacity loc.newCap.                                             *)
(***************************************************************************)

Copy_Lock(t) ==
    /\ AtPc(t, "Copy_Lock")
    /\ mu = 0
    /\ mu' = t
    /\ Goto(t, "Copy_NewDeque")
    /\ UNCHANGED <<mem, dq, st, loc, prog, res, crashed, faults, behind, seqVars, cfg>>

\* newDeque := NewDeque[T](q.Capacity())
Copy_NewDeque(t) ==
    /\ AtPc(t, "Copy_NewDeque")
    /\ LET w == NewDeque(mem, <<Cap(mem, dq.data)>>)
       IN  /\ mem' = w.m
           /\ loc' = [loc EXCEPT ![t].newHeader = w.q.data,
                                 ![t].newCap = w.q.initCap,
                                 ![t].rBack = 0, ![t].rLength = 0]
    /\ Goto(t, "Copy_LoadLength")
    /\ UNCHANGED <<dq, st, mu, prog, res, crashed, faults, behind, seqVars, cfg>>

\* length := atomic.LoadInt32(&q.length); if length == 0 { return newDeque }
Copy_LoadLength(t) ==
    /\ AtPc(t, "Copy_LoadLength")
    /\ loc' = [loc EXCEPT ![t].length = dq.length]
    /\ Goto(t, IF dq.length = 0 THEN "Copy_Unlock" ELSE "Copy_LoadHeader")
    /\ UNCHANGED <<mem, dq, st, mu, prog, res, crashed, faults, behind, seqVars, cfg>>

Copy_LoadHeader(t) ==
    /\ AtPc(t, "Copy_LoadHeader")
    /\ loc' = [loc EXCEPT ![t].header = dq.data, ![t].capacity = Cap(mem, dq.data)]
    /\ Goto(t, "Copy_LoadFront")
    /\ UNCHANGED <<mem, dq, st, mu, prog, res, crashed, faults, behind, seqVars, cfg>>

Copy_LoadFront(t) ==
    /\ AtPc(t, "Copy_LoadFront")
    /\ loc' = [loc EXCEPT ![t].front = dq.front]
    /\ Goto(t, "Copy_LoadBack")
    /\ UNCHANGED <<mem, dq, st, mu, prog, res, crashed, faults, behind, seqVars, cfg>>

Copy_LoadBack(t) ==
    /\ AtPc(t, "Copy_LoadBack")
    /\ loc' = [loc EXCEPT ![t].back = dq.back]
    /\ Goto(t, "Copy_CopyFirst")
    /\ UNCHANGED <<mem, dq, st, mu, prog, res, crashed, faults, behind, seqVars, cfg>>

\* data := make([]T, length) and the first copy: [front:back], or
\* [front:capacity] when the window is seen wrapped; make panics on a
\* negative length, the slice expression on front > capacity
Copy_CopyFirst(t) ==
    /\ AtPc(t, "Copy_CopyFirst")
    /\ LET l == loc[t]
           straight == l.front < l.back
           src == IF straight THEN Slice(mem, l.header, l.front, l.back)
                  ELSE Slice(mem, l.header, l.front, l.capacity)
       IN  IF l.length < 0 \/ (~straight /\ l.front > l.capacity)
           THEN /\ crashed' = TRUE
                /\ UNCHANGED <<mem, pc, loc>>
           ELSE /\ mem' = Append(mem, copySlots([i \in 1..l.length |-> Zero], 0, src))
                /\ loc' = [loc EXCEPT ![t].newHeader = Len(mem) + 1,
                                      ![t].len1 = copyCount([i \in 1..l.length |-> Zero], 0, src),
                                      ![t].rBack = l.length,
                                      ![t].rLength = l.length]
                /\ Goto(t, IF straight THEN "Copy_Unlock" ELSE "Copy_CopySecond")
                /\ UNCHANGED crashed
    /\ UNCHANGED <<dq, st, mu, prog, res, faults, behind, seqVars, cfg>>

\* copy(data[n:], (*[1 << 30]T)(header.data)[:back])
Copy_CopySecond(t) ==
    /\ AtPc(t, "Copy_CopySecond")
    /\ mem' = [mem EXCEPT ![loc[t].newHeader] =
                  copySlots(@, loc[t].len1, Slice(mem, loc[t].header, 0, loc[t].back))]
    /\ Goto(t, "Copy_Unlock")
    /\ UNCHANGED <<dq, st, mu, loc, prog, res, crashed, faults, behind, seqVars, cfg>>

\* the deferred Unlock; the caller gets the new Deque, here as the elements
\* read through it front to back
Copy_Unlock(t) ==
    /\ AtPc(t, "Copy_Unlock")
    /\ mu' = 0
    /\ Return(t, [op |-> "Copy",
                  val |-> Deque_Elems(mem, [data |-> loc[t].newHeader, front |-> 0,
                                            back |-> loc[t].rBack,
                                            length |-> loc[t].rLength,
                                            initCap |-> loc[t].newCap]),
                  ok |-> TRUE])
    /\ UNCHANGED <<mem, dq, st, crashed, faults, behind, seqVars, cfg>>

Copy(t) ==
    \/ Copy_Lock(t) \/ Copy_NewDeque(t) \/ Copy_LoadLength(t)
    \/ Copy_LoadHeader(t) \/ Copy_LoadFront(t) \/ Copy_LoadBack(t)
    \/ Copy_CopyFirst(t) \/ Copy_CopySecond(t) \/ Copy_Unlock(t)

(***************************************************************************)
(* SpecSnapshot: one goroutine calls Copy while three others call PushBack, *)
(* PopFront and PopBack, once each, on a Deque a single caller has put      *)
(* 1..MaxSnapFill elements into, or filled.                                 *)
(***************************************************************************)

\* most elements in the Deque before the run, unless it is full
MaxSnapFill == 3

InitSnapshot ==
    /\ \E k \in (1..MaxSnapFill) \cup {DefaultCap} :
          /\ mem = FilledDeque(0, k).m
          /\ dq = FilledDeque(0, k).q
          /\ cfg = [name |-> "snapshot", n |-> k]
    /\ st = NoStack
    /\ Start(<<PushBackCalls(1, 1),
               <<[op |-> "PopFront", val |-> Zero]>>,
               <<[op |-> "PopBack", val |-> Zero]>>,
               <<[op |-> "Copy", val |-> Zero]>> >>)
    /\ NoSeq

NextSnapshot ==
    \E t \in 1..4 :
        PushBack(t) \/ Resize(t) \/ PopFront(t) \/ PopBack(t) \/ Copy(t)

SpecSnapshot == InitSnapshot /\ [][NextSnapshot]_vars

\* a call of a concurrent goroutine on the abstract sequence
Applied(op, s) ==
    CASE op = "PushBack" -> Append(s, PushVal(1, 1))
      [] op = "PopFront" -> IF s = <<>> THEN s ELSE Tail(s)
      [] op = "PopBack"  -> IF s = <<>> THEN s ELSE SubSeq(s, 1, Len(s) - 1)

\* the sequences the source can hold at some instant: s after any of the
\* calls in ops, each at most once, in any order
RECURSIVE Instants(_, _)
Instants(s, ops) ==
    {s} \cup UNION {Instants(Applied(op, s), ops \ {op}) : op \in ops}

\* C34: the Deque that Copy returns while other goroutines push and pop
\* holds, with its length, the live elements of the source as they were at
\* one instant of the run: the elements before the run after some of the
\* concurrent calls.
C34_CopyIsSnapshot ==
    cfg.name = "snapshot" /\ res[4] # <<>> =>
        res[4][1].val \in
            Instants(FilledAbs(0, cfg.n), {"PushBack", "PopFront", "PopBack"})

(***************************************************************************)
(* SpecPopFrontFair: the goroutines of SpecPopFront under a fair scheduler: *)
(* a goroutine that has a statement to execute is not left waiting for      *)
(* ever.                                                                    *)
(***************************************************************************)

SpecPopFrontFair ==
    /\ SpecPopFront
    /\ \A t \in 1..Poppers : WF_vars(PopFront(t))

\* C37: with finitely many concurrent calls and a fair scheduler every call
\* eventually returns (here: the PopFront calls of the goroutines, whose
\* retry loop is to repeat only when another call moved the boundary).
C37_EventualProgress == <>AllDone

(***************************************************************************)
(* SpecGrow: pushes, one call at a time, onto an empty container of         *)
(* capacity cfg.n, until it holds cfg.n + 1 elements.  The container is new *)
(* (NewDeque(), NewDeque(c), NewStack(), NewStack(c)), or was emptied by    *)
(* pops after some pushes (a Queue whose empty window does not start at     *)
(* slot 0), or was re-housed before it was emptied: a Deque that Copy       *)
(* returned or that ShrinkToFit worked on, a Stack that Copy returned or    *)
(* that TrimToSize or Resize worked on.                                     *)
(***************************************************************************)

\* largest capacity asked of the constructor or of Resize
MaxGrowCap == 10

\* most elements a container held before it was re-housed and emptied
MaxGrowFill == 9

RECURSIVE PopN(_, _)
PopN(w, k) ==
    IF k = 0 THEN w
    ELSE LET p == PopN(w, k - 1)
             r == Stack_Pop(p.m, p.s)
         IN  [m |-> r.m, s |-> r.s]

InitGrow ==
    /\ NoThreads
    /\ \/ /\ \E c \in 0..MaxGrowCap :
                LET w == NewDeque(<<>>, IF c = 0 THEN <<>> ELSE <<c>>)
                IN  /\ mem = w.m
                    /\ dq = w.q
                    /\ cfg = [name |-> "growdeque", n |-> Deque_Capacity(w.m, w.q)]
          /\ st = NoStack
       \/ /\ \E r \in 1..MaxWarm :
                /\ mem = WarmQueue(r).m
                /\ dq = WarmQueue(r).q
                /\ cfg = [name |-> "growdeque",
                          n |-> Deque_Capacity(WarmQueue(r).m, WarmQueue(r).q)]
          /\ st = NoStack
       \/ /\ \E nf \in 0..1 : \E nb \in 0..MaxGrowFill : \E shape \in {"copied", "shrunk"} :
                LET w == PopFrontN(ShapedDeque(FilledDeque(nf, nb), shape), nf + nb)
                IN  /\ mem = w.m
                    /\ dq = w.q
                    /\ cfg = [name |-> "growdeque", n |-> Deque_Capacity(w.m, w.q)]
          /\ st = NoStack
       \/ /\ \E c \in 0..MaxGrowCap :
                LET w == NewStack(<<>>, IF c = 0 THEN <<>> ELSE <<c>>)
                IN  /\ mem = w.m
                    /\ st = w.s
                    /\ cfg = [name |-> "growstack", n |-> Stack_Capacity(w.m, w.s)]
          /\ dq = NoDeque
       \/ /\ \E np \in 0..MaxGrowFill : \E shape \in {"copied", "shrunk"} :
                LET w == PopN(ShapedStack(FilledStack(np), shape), np)
                IN  /\ mem = w.m
                    /\ st = w.s
                    /\ cfg = [name |-> "growstack", n |-> Stack_Capacity(w.m, w.s)]
          /\ dq = NoDeque
       \/ /\ \E c \in 0..MaxGrowCap :
                LET w == Stack_Resize(NewStack(<<>>, <<>>).m, NewStack(<<>>, <<>>).s, c)
                IN  /\ mem = w.m
                    /\ st = w.s
                    /\ cfg = [name |-> "growstack", n |-> Stack_Capacity(w.m, w.s)]
          /\ dq = NoDeque
    /\ abs = <<>>
    /\ hist = <<>>
    /\ ret = NoRet
    /\ nops = 0

\* a write outside the backing array is remembered in faults; it lands in
\* no array or in the neighbouring one
GrowPushBack ==
    /\ cfg.name = "growdeque"
    /\ nops < cfg.n + 1
    /\ LET r == Deque_PushBack(mem, dq, FreshVal)
       IN  /\ mem' \in (IF r.fault THEN StrayWrites(r.m, dq.data, dq.back, FreshVal)
                        ELSE {r.m})
           /\ dq' = r.q
           /\ faults' = faults \cup OobIf(r.fault)
    /\ abs' = Append(abs, FreshVal)
    /\ nops' = nops + 1
    /\ UNCHANGED <<st, hist, ret, cfg, mu, pc, loc, prog, res, crashed, behind>>

GrowPushFront ==
    /\ cfg.name = "growdeque"
    /\ nops < cfg.n + 1
    /\ LET r == Deque_PushFront(mem, dq, FreshVal)
       IN  /\ mem' = r.m
           /\ dq' = r.q
           /\ faults' = faults \cup OobIf(r.fault)
    /\ abs' = <<FreshVal>> \o abs
    /\ nops' = nops + 1
    /\ UNCHANGED <<st, hist, ret, cfg, mu, pc, loc, prog, res, crashed, behind>>

GrowPush ==
    /\ cfg.name = "growstack"
    /\ nops < cfg.n + 1
    /\ LET r == Stack_Push(mem, st, FreshVal)
       IN  /\ mem' = r.m
           /\ st' = r.s
           /\ faults' = faults \cup OobIf(r.fault)
    /\ abs' = <<FreshVal>> \o abs
    /\ nops' = nops + 1
    /\ UNCHANGED <<dq, hist, ret, cfg, mu, pc, loc, prog, res, crashed, behind>>

NextGrow == GrowPushBack \/ GrowPushFront \/ GrowPush

SpecGrow == InitGrow /\ [][NextGrow]_vars

\* C13: after C + 1 pushes onto an empty Deque or Stack of capacity C the
\* capacity is exactly 2 * C, and At returns every pushed element at its
\* logical index (abs is the Deque front to back, the Stack top to bottom).
C13_GrowthDoubles ==
    /\ cfg.name = "growdeque" /\ nops = cfg.n + 1 =>
          /\ Deque_Capacity(mem, dq) = 2 * cfg.n
          /\ Deque_Len(dq) = cfg.n + 1
          /\ \A i \in 0..cfg.n : Deque_At(mem, dq, i) = [val |-> abs[i + 1], ok |-> TRUE,
                                                         fault |-> FALSE]
    /\ cfg.name = "growstack" /\ nops = cfg.n + 1 =>
          /\ Stack_Capacity(mem, st) = 2 * cfg.n
          /\ Stack_Length(st) = cfg.n + 1
          /\ \A i \in 0..cfg.n : Stack_At(mem, st, i) = [val |-> abs[i + 1], ok |-> TRUE,
                                                         fault |-> FALSE]

\* the part of C13 about the elements alone: after the C + 1 pushes At
\* returns every pushed element at its logical index
C13_ElementsKept ==
    /\ cfg.name = "growdeque" /\ nops = cfg.n + 1 =>
          \A i \in 0..cfg.n : Deque_At(mem, dq, i).val = abs[i + 1]
    /\ cfg.name = "growstack" /\ nops = cfg.n + 1 =>
          \A i \in 0..cfg.n : Stack_At(mem, st, i).val = abs[i + 1]

\* the part of C13 about the capacity, with the rule for a capacity of
\* zero: after the C + 1 pushes the capacity is 2 * C, or the initial
\* capacity of the container when C is 0
C13_CapacityGrown ==
    /\ cfg.name = "growdeque" /\ nops = cfg.n + 1 =>
          Deque_Capacity(mem, dq) = IF cfg.n = 0 THEN dq.initCap ELSE 2 * cfg.n
    /\ cfg.name = "growstack" /\ nops = cfg.n + 1 =>
          Stack_Capacity(mem, st) = IF cfg.n = 0 THEN st.initCap ELSE 2 * cfg.n

====
